---- MODULE Spec2Model ----
(***************************************************************************)
(* spawn-rx: the process stream engine of src/src/index.ts.                *)
(*                                                                         *)
(* spawn(exe, params, opts) returns a cold Observable: every subscription  *)
(* runs the subscribe function of spawnObs once, which launches one child  *)
(* process and wires its notifications to the subscriber `subj`.  With     *)
(* opts.retries > 0 the observable is piped through rxjs retry({count,     *)
(* delay}), which re-subscribes spawnObs after a delay timer.              *)
(*                                                                         *)
(* Every action below is one JavaScript callback run to completion         *)
(* (subscribe function, event listener, timer callback, unsubscribe).      *)
(***************************************************************************)
EXTENDS Integers, Sequences, FiniteSets, TLC

(***************************************************************************)
(* Bounds of the model.                                                    *)
(***************************************************************************)
\* largest value of opts.retries that is explored
MaxRetries == 1
\* number of output events a consumer records before data is no longer fed
MaxEvents == 1
\* largest length of process.env.PATH, in tokens
MaxPathLen == 3
MaxFiles == 2

(***************************************************************************)
(* Program constants.                                                      *)
(***************************************************************************)
\* exit code of the SpawnError raised by the timeout timer
TimeoutExitCode == -1
\* retry delay when opts.retryDelay is undefined
DefaultRetryDelay == 1000
\* delay of the kill that follows the connect to the jobber pipe
JobberKillDelay == 5000

\* the values of opts.timeout that are explored; 0 is "no timeout"
Timeouts == {0, 50}
\* the values of opts.retryDelay that are explored; {} is undefined
RetryDelays == {{}, {10}}

Consumers == {1, 2}
\* the exit codes a process closes with
ExitCodes == {0, 1, 2}
Sources == {"stdout", "stderr"}
\* chunks delivered by a pipe; "" is the empty chunk
Chunks == {"", "a"}

VARIABLES
  opts,       \* the options of the spawn() call (one stream per behaviour)
  consumers,  \* the consumers that may subscribe to the stream
  procs,      \* one record per launched process, in launch order
  sub,        \* per consumer: state of its subscription to the result stream
  innerSub,   \* per consumer: index in procs of the current attempt (0: none)
  soFar,      \* per consumer: the retry operator's error counter
  retryTimer, \* per consumer: delay of the pending retry timer ({}: none)
  events,     \* per consumer: the values received through next
  outcome,    \* per consumer: the terminal notification received
  platform,   \* process.platform
  exe,        \* the exe argument of spawn / findActualExecutable / runDownPath
  params,     \* the params argument of spawn
  detachedCall, \* the arguments of the spawnDetached call that made the stream, if any
  envPath,    \* process.env.PATH: {} if undefined, else {its value}
  fs,         \* the file system: what statSync does for each path it knows
  resolved    \* results of the direct calls of the resolver functions

\* what the resolver reads and what direct calls of it return
world == <<platform, exe, params, detachedCall, envPath, fs, resolved>>

vars == <<opts, consumers, procs, sub, innerSub, soFar, retryTimer, events, outcome,
          platform, exe, params, detachedCall, envPath, fs, resolved>>

(***************************************************************************)
(* The executable resolver: runDownPath and findActualExecutable.          *)
(*                                                                         *)
(* A string is a sequence of tokens: a name, a separator, an extension.    *)
(***************************************************************************)
Platforms == {"posix", "win32"}
isWindows == platform = "win32"

\* the smallest element of a non-empty set of numbers
Min(S) == CHOOSE x \in S : \A y \in S : x <= y

\* every sequence over S of length at most n
SeqsUpTo(S, n) == UNION {[1..k -> S] : k \in 0..n}

\* exe.match(/[\\/]/)
HasSeparator(s) == \E i \in 1..Len(s) : s[i] \in {"/", "\\"}

\* path.join(a, b) for a directory a without separators and a non-empty b:
\* "" and "." contribute nothing to the normalized result
PathJoin(a, b) ==
  IF a = <<>> \/ a = <<".">>
    THEN b
    ELSE a \o <<IF isWindows THEN "\\" ELSE "/">> \o b

\* String.prototype.split(d): the pieces between the occurrences of d; the
\* empty string has one empty piece
RECURSIVE Split(_, _)
Split(s, d) ==
  LET at == {i \in 1..Len(s) : s[i] = d}
  IN IF at = {}
       THEN <<s>>
       ELSE <<SubSeq(s, 1, Min(at) - 1)>> \o Split(SubSeq(s, Min(at) + 1, Len(s)), d)

\* what sfs.statSync(file) does: it returns a Stats ("found") or throws
StatOutcomes == {"found", "ENOENT", "EACCES"}
StatSync(file) == IF file \in DOMAIN fs THEN fs[file] ELSE "ENOENT"

\* statSyncNoException: the Stats, or null for whatever statSync throws;
\* TRUE stands for the (truthy) Stats
statSyncNoException(file) == StatSync(file) = "found"

\* sfs.existsSync never throws
existsSync(file) == StatSync(file) = "found"

\* runDownPath with the PATH entries searched before the current directory
runDownPathPathFirst(e) ==
  IF HasSeparator(e) THEN e
  ELSE
    LET target == PathJoin(<<".">>, e)
        haystack == IF envPath = {} THEN <<>>
                    ELSE Split(CHOOSE v \in envPath : TRUE, IF isWindows THEN ";" ELSE ":")
        hits == {i \in 1..Len(haystack) : statSyncNoException(PathJoin(haystack[i], e))}
    IN IF hits # {} THEN PathJoin(haystack[Min(hits)], e)
       ELSE IF statSyncNoException(target) THEN target
       ELSE e

\* runDownPath(exe), lines 80-113
runDownPath(e) ==
  IF HasSeparator(e) THEN e
  ELSE
    LET target == PathJoin(<<".">>, e)
        haystack == IF envPath = {} THEN <<>>
                    ELSE Split(CHOOSE v \in envPath : TRUE, IF isWindows THEN ";" ELSE ":")
        hits == {i \in 1..Len(haystack) : statSyncNoException(PathJoin(haystack[i], e))}
    IN IF statSyncNoException(target) THEN target
       ELSE IF hits # {} THEN PathJoin(haystack[Min(hits)], e)
       ELSE e

\* the extensions tried with the scripts before the binary
possibleExtsScriptsFirst == <<".bat", ".cmd", ".ps1", ".exe">>

\* const possibleExts = [".exe", ".bat", ".cmd", ".ps1"], line 146
possibleExts == <<".exe", ".bat", ".cmd", ".ps1">>

\* the extension match without the /i flag
LowerCaseNone(t) == t

\* the extension tokens, and what the /i flag makes of them
LowerCase(t) ==
  CASE t = ".PS1" -> ".ps1"
    [] t = ".BAT" -> ".bat"
    [] t = ".CMD" -> ".cmd"
    [] t = ".JS" -> ".js"
    [] OTHER -> t

\* exe.match(/\.(x|y)$/i)
MatchesExt(e, exts) == e # <<>> /\ LowerCase(e[Len(e)]) \in exts

\* path.join(process.env.SYSTEMROOT, "System32", ...)
SystemRoot == <<"%SYSTEMROOT%">>
PowerShellExe ==
  SystemRoot \o <<"\\", "System32", "\\", "WindowsPowerShell", "\\", "v1.0", "\\", "PowerShell", ".exe">>
CmdExe == SystemRoot \o <<"\\", "System32", "\\", "cmd", ".exe">>
\* process.execPath
ExecPath == <<"node">>

\* the dispatch by extension at the end of findActualExecutable
ScriptRunner(e, args) ==
  IF MatchesExt(e, {".ps1"})
    THEN [cmd |-> PowerShellExe,
          args |-> << <<"-ExecutionPolicy">>, <<"Unrestricted">>, <<"-NoLogo">>,
                      <<"-NonInteractive">>, <<"-File">>, e >> \o args]
  ELSE IF MatchesExt(e, {".bat", ".cmd"})
    THEN [cmd |-> CmdExe, args |-> << <<"/C">>, e >> \o args]
  ELSE IF MatchesExt(e, {".js"})
    THEN [cmd |-> ExecPath, args |-> <<e>> \o args]
  ELSE [cmd |-> e, args |-> args]

\* ExtensionMatch searching the extensions for an exe that exists as well
ExtensionMatchUnguarded(e) ==
  LET fits == {i \in 1..Len(possibleExts) :
                 existsSync(runDownPath(e \o <<possibleExts[i]>>))}
  IN IF fits = {} THEN {}
     ELSE {runDownPath(e \o <<possibleExts[Min(fits)]>>)}

\* the extension search of lines 142-155: the path the recursive call is
\* made with, if there is one
ExtensionMatch(e) ==
  LET fits == {i \in 1..Len(possibleExts) :
                 existsSync(runDownPath(e \o <<possibleExts[i]>>))}
  IN IF existsSync(e) \/ fits = {} THEN {}
     ELSE {runDownPath(e \o <<possibleExts[Min(fits)]>>)}

\* findActualExecutable keeping a scratch of its calls: the PATH search is
\* done by the first call only
findActualExecutableStateful(e, args) ==
  IF \E q \in resolved : q.fn = "findActualExecutable"
    THEN [cmd |-> e, args |-> args]
    ELSE [cmd |-> runDownPath(e), args |-> args]

\* findActualExecutable(exe, args), lines 131-180
RECURSIVE findActualExecutable(_, _)
findActualExecutable(e, args) ==
  IF ~isWindows
    THEN [cmd |-> runDownPath(e), args |-> args]
    ELSE IF ExtensionMatch(e) # {}
           THEN findActualExecutable(CHOOSE f \in ExtensionMatch(e) : TRUE, args)
           ELSE ScriptRunner(e, args)

\* the exe arguments of the calls of findActualExecutable that one call
\* from outside makes, itself first
RECURSIVE Calls(_)
Calls(e) ==
  IF isWindows /\ ExtensionMatch(e) # {}
    THEN <<e>> \o Calls(CHOOSE f \in ExtensionMatch(e) : TRUE)
    ELSE <<e>>

\* the params a caller passes
Params == << <<"x">> >>

\* spawn resolving once per stream: the resolution of the first activation
\* is used by every later one
ResolveOnce ==
  IF procs = <<>> THEN findActualExecutable(exe, params)
  ELSE [cmd |-> procs[1].cmd, args |-> procs[1].args]

\* const { cmd, args } = findActualExecutable(exe, params), line 407
Resolve == findActualExecutable(exe, params)

(***************************************************************************)
(* Errors.                                                                 *)
(***************************************************************************)
\* new SpawnError(message, exitCode, command, args): exitCode and code are
\* both set from the constructor's exitCode
SpawnError(message, exitCode, command) ==
  [name |-> "SpawnError", message |-> message, exitCode |-> exitCode,
   code |-> exitCode, command |-> command]

\* the resolved command of this stream, and the command of another stream
Cmd == "cmd"
OtherCmd == "other"

\* a plain Error (or the error of the child_process 'error' event)
PlainError(message) == [name |-> "Error", message |-> message]

\* what an opts.stdin source may fail with: any value, in particular the
\* SpawnError of another spawn() stream that is piped in as stdin
StdinErrors == {PlainError("stdin"), SpawnError("exit", 1, OtherCmd)}

NoOutcome == [kind |-> "none"]
Completed == [kind |-> "complete"]
Failed(e) == [kind |-> "error", err |-> e]

(***************************************************************************)
(* Options.                                                                *)
(***************************************************************************)
\* child_process creates proc.stdin / proc.stdout / proc.stderr only for a
\* stdio entry that is "pipe" (the default); any other entry stands for
\* "ignore" or "inherit"
StdioModes == {"pipe", "ignore"}

\* every combination of the options the engine reads; an option nothing
\* reads in a combination is left at its default there (retryDelay without
\* retries, stdio.stdin without a stdin source)
OptionSpace ==
  {o \in [timeout    : Timeouts,
          retries    : 0..MaxRetries,
          retryDelay : RetryDelays,
          stdin      : BOOLEAN,
          stdio      : [stdin : StdioModes, stdout : StdioModes, stderr : StdioModes],
          jobber     : BOOLEAN] :
     /\ o.retries = 0 => o.retryDelay = {}
     /\ ~o.stdin => o.stdio.stdin = "pipe"}

\* RetryDelay with the default lost (opts.retryDelay ?? 0)
RetryDelayNoDefault ==
  IF opts.retryDelay = {} THEN 0 ELSE CHOOSE x \in opts.retryDelay : TRUE

\* const delay = opts.retryDelay ?? 1000
RetryDelay ==
  IF opts.retryDelay = {} THEN DefaultRetryDelay ELSE CHOOSE x \in opts.retryDelay : TRUE

\* if (opts.retries && opts.retries > 0): the retry operator is applied
HasRetry == opts.retries > 0

\* the delay callback of retry: only a SpawnError with a non-zero exit code
\* returns timer(delay), every other error is thrown
Retryable(e) == e.name = "SpawnError" /\ e.exitCode # 0

(***************************************************************************)
(* One activation: the state the subscribe function of spawnObs closes     *)
(* over, together with the state of the child process it launched.         *)
(***************************************************************************)
\* if (timeout && timeout > 0) timeoutHandle = setTimeout(...)
ArmTimeout == IF opts.timeout > 0 THEN "armed" ELSE "null"

\* ClearTimeout with the clearTimeout call lost
ClearTimeoutLost(h) == h

\* if (timeoutHandle) clearTimeout(timeoutHandle)
ClearTimeout(h) == IF h = "armed" THEN "cleared" ELSE h

\* PipeState waiting for the close of a stream that is not piped
PipeStateAlwaysOpen(mode) == "open"

\* if (proc.stdout) stdoutCompleted = new AsyncSubject() else of(true)
PipeState(mode) == IF mode = "pipe" THEN "open" ELSE "none"

\* StdinConflict never detected
StdinConflictIgnored == FALSE

\* the stdin source is subscribed only if opts.stdin and proc.stdin exist
StdinConflict == opts.stdin /\ opts.stdio.stdin # "pipe"

\* what the opts.stdin source emits, in order, if it is not ended before
StdinSource == <<"x", "y">>

\* the options that the destructuring of line 406 takes out of opts
Destructured == {"stdin", "jobber", "split", "encoding", "timeout", "retries", "retryDelay"}

\* const { ..., ...spawnOpts } = opts: the options handed to the native launch
spawnOpts(o) == [k \in DOMAIN o \ Destructured |-> o[k]]

NewProc(c, n) ==
  [owner         |-> c,
   attempt       |-> n,
   pid           |-> Len(procs) + 1,
   cmd           |-> Resolve.cmd,
   args          |-> Resolve.args,
   spawnOpts     |-> spawnOpts(opts),
   written       |-> <<>>,
   ends          |-> 0,
   arrived       |-> <<>>,
   echoed        |-> <<>>,
   jobberPipe    |-> {},
   jobberDelay   |-> {},
   stdout        |-> PipeState(opts.stdio.stdout),
   stderr        |-> PipeState(opts.stdio.stderr),
   stdinSub      |-> IF opts.stdin /\ ~StdinConflict THEN "subscribed" ELSE "none",
   noClose       |-> FALSE,
   closed        |-> FALSE,
   code          |-> 0,
   errored       |-> FALSE,
   timeoutHandle |-> ArmTimeout,
   killed        |-> FALSE,
   kills         |-> 0,
   connects      |-> 0,
   jobberTimer   |-> "none",
   stopped       |-> FALSE,
   term          |-> NoOutcome]

\* proc.kill(): a termination request; proc.killed is set when the signal
\* could be delivered, that is while the process has not ended
Kill(pr) == [pr EXCEPT !.kills = @ + 1, !.killed = @ \/ ~pr.closed]

\* Teardown without the `if (noClose) return` guard
TeardownUnguarded(pr) ==
  LET a == [pr EXCEPT !.stdinSub = IF @ = "subscribed" THEN "unsubscribed" ELSE @]
      b == [a EXCEPT !.timeoutHandle = ClearTimeout(@)]
  IN IF opts.jobber
       THEN [b EXCEPT !.connects = @ + 1, !.jobberPipe = @ \cup {b.pid}, !.jobberTimer = "armed",
                     !.jobberDelay = {JobberKillDelay}]
       ELSE Kill(b)

\* Teardown without its clearTimeout
TeardownKeepsTimer(pr) ==
  LET a == [pr EXCEPT !.stdinSub = IF @ = "subscribed" THEN "unsubscribed" ELSE @]
  IN IF a.noClose THEN a
     ELSE IF opts.jobber
          THEN [a EXCEPT !.connects = @ + 1, !.jobberPipe = @ \cup {a.pid}, !.jobberTimer = "armed",
                     !.jobberDelay = {JobberKillDelay}]
          ELSE Kill(a)

\* the finalizers of `ret`: the stdin subscription is dropped, then the
\* Subscription of lines 524-543 runs
Teardown(pr) ==
  LET a == [pr EXCEPT !.stdinSub = IF @ = "subscribed" THEN "unsubscribed" ELSE @]
      b == [a EXCEPT !.timeoutHandle = ClearTimeout(@)]
  IN IF a.noClose THEN a
     ELSE IF opts.jobber
          THEN [b EXCEPT !.connects = @ + 1, !.jobberPipe = @ \cup {b.pid}, !.jobberTimer = "armed",
                     !.jobberDelay = {JobberKillDelay}]
          ELSE Kill(b)

\* subj.error(e) / subj.complete(): a stopped subscriber drops the
\* notification; otherwise it is passed on and the subscriber unsubscribes,
\* which runs the teardown
SubjTerminate(pr, n) ==
  IF pr.stopped THEN pr ELSE Teardown([pr EXCEPT !.stopped = TRUE, !.term = n])

\* unsubscribe from outside: no notification, the teardown runs once
SubjUnsubscribe(pr) ==
  IF pr.stopped THEN pr ELSE Teardown([pr EXCEPT !.stopped = TRUE])

\* PipesClosed waiting for stdout only
PipesClosedStdoutOnly(pr) == pr.stdout # "open"

\* merge(stdoutCompleted, stderrCompleted).pipe(reduce(...)) emits once both
\* have completed; of(true) has completed from the start
PipesClosed(pr) == pr.stdout # "open" /\ pr.stderr # "open"

\* CloseNotification with the test of the code lost
CloseNotificationAnyCode(code) == Completed

\* code === 0 ? subj.complete() : subj.error(new SpawnError(..., code, ...))
CloseNotification(code) ==
  IF code = 0 THEN Completed ELSE Failed(SpawnError("exit", code, Cmd))

\* the timer callback's error
TimeoutError == SpawnError("timeout", TimeoutExitCode, Cmd)

(***************************************************************************)
(* The consumer's side of the stream returned by spawn(): resultObs, that  *)
(* is spawnObs itself or spawnObs piped through retry.                     *)
(***************************************************************************)
\* WithinCount off by one (soFar++ <= count)
WithinCountOffByOne(c) == soFar[c] <= opts.retries

\* retry: if (soFar++ < count) the error goes to the delay callback
WithinCount(c) == soFar[c] < opts.retries

\* what the consumer does with the error e of its current attempt:
\* "retry" arms the delay timer, "error" passes e on to the consumer
ErrorRoute(c, e) ==
  IF HasRetry /\ WithinCount(c) /\ Retryable(e) THEN "retry" ELSE "error"

\* the consumer's variables after the notification n of its current
\* attempt (kind "none": the attempt goes on)
Deliver(c, n) ==
  LET route == IF n.kind = "error" THEN ErrorRoute(c, n.err) ELSE n.kind
  IN /\ sub' = [sub EXCEPT ![c] =
                  CASE route = "none" -> "active"
                    [] route = "retry" -> "retryWait"
                    [] OTHER -> "terminated"]
     /\ retryTimer' = [retryTimer EXCEPT ![c] =
                  IF route = "retry" THEN {RetryDelay} ELSE {}]
     /\ soFar' = [soFar EXCEPT ![c] =
                  IF n.kind = "error" /\ HasRetry THEN @ + 1 ELSE @]
     /\ outcome' = [outcome EXCEPT ![c] =
                  IF route \in {"complete", "error"} THEN n ELSE @]

Pids == 1..Len(procs)

\* Passed with a subscriber that takes notifications after it has stopped
PassedAlways(p, n) == n

\* the notification procs[p] passes on when its subscriber is asked to end
\* with n: nothing if the subscriber has stopped before
Passed(p, n) == IF procs[p].stopped THEN NoOutcome ELSE n

\* retry's resub(): innerSub.unsubscribe(); innerSub = null.  The stopped
\* activation of the previous attempt is no longer referenced by the stream.
\* What its listeners may still change is read by nothing, so its record
\* keeps only what the process itself and its pending timers go on using:
\* whether it has closed, the requests sent to it, its timers, and the
\* notification it ended with.
Forget(pr) ==
  [pr EXCEPT !.stdout = "none", !.stderr = "none", !.stdinSub = "none",
             !.written = <<>>, !.ends = 0, !.arrived = <<>>,
             !.noClose = pr.closed, !.code = 0, !.errored = FALSE]

\* Launch with the conflict error raised but the teardown of `ret` not run
LaunchConflictNoTeardown(c) ==
  LET n == Cardinality({q \in 1..Len(procs) : procs[q].owner = c}) + 1
      base == NewProc(c, n)
      conflict == Failed(PlainError("conflict"))
      prev == [q \in Pids |-> IF q = innerSub[c] THEN Forget(procs[q]) ELSE procs[q]]
  IN /\ procs' = Append(prev,
                   IF StdinConflict
                     THEN [base EXCEPT !.stopped = TRUE, !.term = conflict]
                     ELSE base)
     /\ innerSub' = [innerSub EXCEPT ![c] = Len(procs) + 1]
     /\ Deliver(c, IF StdinConflict THEN conflict ELSE NoOutcome)
     /\ UNCHANGED <<events, world>>

\* the subscribe function of spawnObs, lines 404-546, run for the consumer's
\* next attempt.  A stdin conflict raises its error inside the function; the
\* subscriber is stopped by it, so the teardown returned at line 545 runs at
\* once.
Launch(c) ==
  LET n == Cardinality({q \in 1..Len(procs) : procs[q].owner = c}) + 1
      base == NewProc(c, n)
      conflict == Failed(PlainError("conflict"))
      prev == [q \in Pids |-> IF q = innerSub[c] THEN Forget(procs[q]) ELSE procs[q]]
  IN /\ procs' = Append(prev,
                   IF StdinConflict THEN SubjTerminate(base, conflict) ELSE base)
     /\ innerSub' = [innerSub EXCEPT ![c] = Len(procs) + 1]
     /\ Deliver(c, IF StdinConflict THEN conflict ELSE NoOutcome)
     /\ UNCHANGED <<events, world>>

\* resultObs.subscribe(...)
Subscribe(c) ==
  /\ c \in consumers
  /\ sub[c] = "idle"
  /\ Launch(c)
  /\ UNCHANGED <<opts, consumers>>

\* the retry delay timer fires: resub() subscribes spawnObs again
RetryTimerFire(c) ==
  /\ sub[c] = "retryWait"
  /\ retryTimer[c] # {}
  /\ Launch(c)
  /\ UNCHANGED <<opts, consumers>>

\* Unsubscribe with one handle shared by the activations: the teardown
\* acts on the process launched last
UnsubscribeShared(c) ==
  /\ sub[c] # "idle"
  /\ IF sub[c] \in {"active", "retryWait"}
       THEN /\ sub' = [sub EXCEPT ![c] = "detached"]
            /\ retryTimer' = [retryTimer EXCEPT ![c] = {}]
            /\ procs' = [procs EXCEPT ![Len(procs)] = SubjUnsubscribe(@)]
       ELSE UNCHANGED <<sub, retryTimer, procs>>
  /\ UNCHANGED <<opts, consumers, innerSub, soFar, events, outcome, world>>

\* Unsubscribe leaving the retry delay timer pending
UnsubscribeKeepsRetryTimer(c) ==
  /\ sub[c] # "idle"
  /\ IF sub[c] \in {"active", "retryWait"}
       THEN /\ sub' = [sub EXCEPT ![c] = "detached"]
            /\ procs' = [procs EXCEPT ![innerSub[c]] = SubjUnsubscribe(@)]
            /\ UNCHANGED retryTimer
       ELSE UNCHANGED <<sub, retryTimer, procs>>
  /\ UNCHANGED <<opts, consumers, innerSub, soFar, events, outcome, world>>

\* subscription.unsubscribe() by the consumer: the current attempt is torn
\* down and a pending retry timer is cancelled.  A subscription that is
\* closed already (terminated, or unsubscribed before) does nothing.
Unsubscribe(c) ==
  /\ sub[c] # "idle"
  /\ IF sub[c] \in {"active", "retryWait"}
       THEN /\ sub' = [sub EXCEPT ![c] = "detached"]
            /\ retryTimer' = [retryTimer EXCEPT ![c] = {}]
            /\ procs' = [procs EXCEPT ![innerSub[c]] = SubjUnsubscribe(@)]
       ELSE UNCHANGED <<sub, retryTimer, procs>>
  /\ UNCHANGED <<opts, consumers, innerSub, soFar, events, outcome, world>>

(***************************************************************************)
(* Notifications of a launched process.                                    *)
(***************************************************************************)
\* the step of process p that turns its record into pr and asks its
\* subscriber to end with n (kind "none": no notification)
ProcStep(p, pr, n) ==
  /\ procs' = [procs EXCEPT ![p] = pr]
  /\ IF Passed(p, n).kind = "none"
       THEN UNCHANGED <<sub, retryTimer, soFar, outcome>>
       ELSE Deliver(procs[p].owner, n)
  /\ UNCHANGED <<opts, consumers, innerSub, events, world>>

\* if (opts.echoOutput)
EchoOutput == "echoOutput" \in DOMAIN opts /\ opts.echoOutput

\* the record of pr after the write of the chunk b of source to the
\* standard stream of that name of the current process, made when the
\* activation had handed `emitted` events to its subscriber
Echo(pr, source, b, emitted) ==
  IF EchoOutput
    THEN [pr EXCEPT !.echoed = Append(@, [source |-> source, text |-> b, emitted |-> emitted])]
    ELSE pr

\* DataUpTo passing on the empty chunk as well
DataUpToWithEmpty(p, source, b, cap) ==
  LET pr == procs[p]
      c == pr.owner
      x == [source |-> source, text |-> b]
  IN /\ pr[source] = "open"
     /\ IF pr.stopped
          THEN UNCHANGED <<events, procs>>
          ELSE /\ Len(events[c]) < cap
               /\ events' = [events EXCEPT ![c] = Append(@, x)]
               /\ IF b = "" THEN UNCHANGED procs
                  ELSE procs' = [procs EXCEPT ![p] =
                                   [Echo(pr, source, b, Len(pr.arrived))
                                      EXCEPT !.arrived = Append(@, x)]]
     /\ UNCHANGED <<opts, consumers, sub, innerSub, soFar, retryTimer, outcome, world>>

\* DataUpTo writing the chunk to the standard stream after the event
DataUpToEchoLast(p, source, b, cap) ==
  LET pr == procs[p]
      c == pr.owner
      x == [source |-> source, text |-> b]
  IN /\ pr[source] = "open"
     /\ IF b = ""
          THEN UNCHANGED <<events, procs>>
          ELSE IF pr.stopped
            THEN /\ EchoOutput => Len(pr.echoed) < cap
                 /\ procs' = [procs EXCEPT ![p] = Echo(pr, source, b, Len(pr.arrived))]
                 /\ UNCHANGED events
            ELSE /\ Len(events[c]) < cap
                 /\ events' = [events EXCEPT ![c] = Append(@, x)]
                 /\ procs' = [procs EXCEPT ![p] =
                                [Echo(pr, source, b, Len(pr.arrived) + 1)
                                   EXCEPT !.arrived = Append(@, x)]]
     /\ UNCHANGED <<opts, consumers, sub, innerSub, soFar, retryTimer, outcome, world>>

\* the listener of a pipe's 'data': bufHandler(source)(b), explored while
\* the consumer has recorded fewer than cap events (for a stopped
\* subscriber: while fewer than cap chunks were echoed); arrived keeps the
\* non-empty chunks the pipes of the process delivered to a listener whose
\* subscriber had not stopped
DataUpTo(p, source, b, cap) ==
  LET pr == procs[p]
      c == pr.owner
      x == [source |-> source, text |-> b]
  IN /\ pr[source] = "open"
     /\ IF b = ""
          THEN UNCHANGED <<events, procs>>
          ELSE IF pr.stopped
            THEN /\ EchoOutput => Len(pr.echoed) < cap
                 /\ procs' = [procs EXCEPT ![p] = Echo(pr, source, b, Len(pr.arrived))]
                 /\ UNCHANGED events
            ELSE /\ Len(events[c]) < cap
                 /\ events' = [events EXCEPT ![c] = Append(@, x)]
                 /\ procs' = [procs EXCEPT ![p] =
                                [Echo(pr, source, b, Len(pr.arrived))
                                   EXCEPT !.arrived = Append(@, x)]]
     /\ UNCHANGED <<opts, consumers, sub, innerSub, soFar, retryTimer, outcome, world>>

Data(p, source, b) == DataUpTo(p, source, b, MaxEvents)

\* the listener of a pipe's 'close': the pipe's AsyncSubject completes; if
\* the 'close' listener of the process has subscribed pipesClosed before and
\* this was the last open pipe, pipesClosed emits.  Once the subscriber has
\* stopped nothing reads the AsyncSubjects any more: the record of a stopped
\* activation keeps the pipe states it stopped with.
PipeClose(p, source) ==
  LET pr == procs[p]
      shut == [pr EXCEPT ![source] = "closed"]
      fire == pr.closed /\ PipesClosed(shut)
      n == IF fire THEN CloseNotification(pr.code) ELSE NoOutcome
  IN /\ pr[source] = "open"
     /\ ~pr.stopped
     /\ ProcStep(p, IF fire THEN SubjTerminate(shut, n) ELSE shut, n)

\* ProcClose with pipe subjects that do not replay their completion: the
\* closes of the pipes that came before the close of the process are not
\* seen by pipesClosed
ProcCloseNoReplay(p, code) ==
  LET pr == procs[p]
      seen == [pr EXCEPT !.closed = TRUE, !.noClose = TRUE,
                         !.code = IF pr.stopped THEN @ ELSE code,
                         !.timeoutHandle = ClearTimeout(@)]
  IN /\ ~pr.closed
     /\ ProcStep(p, seen, NoOutcome)

\* proc.on("close", code).  The code is captured by the callback given to
\* pipesClosed; for a stopped subscriber that callback has no effect and the
\* record keeps no code.
ProcClose(p, code) ==
  LET pr == procs[p]
      seen == [pr EXCEPT !.closed = TRUE, !.noClose = TRUE,
                         !.code = IF pr.stopped THEN @ ELSE code,
                         !.timeoutHandle = ClearTimeout(@)]
      fire == PipesClosed(seen)
      n == IF fire THEN CloseNotification(code) ELSE NoOutcome
  IN /\ ~pr.closed
     /\ ProcStep(p, IF fire THEN SubjTerminate(seen, n) ELSE seen, n)

\* ProcError without noClose = true
ProcErrorNoFlag(p) ==
  LET pr == procs[p]
      seen == [pr EXCEPT !.errored = TRUE, !.timeoutHandle = ClearTimeout(@)]
      n == Failed(PlainError("launch"))
  IN /\ ~pr.closed
     /\ ~pr.errored
     /\ ~pr.stopped
     /\ ProcStep(p, SubjTerminate(seen, n), n)

\* proc.on("error", e).  For a stopped subscriber the listener changes
\* nothing that is read afterwards (the teardown has run, the timer is
\* settled), so the step is taken for running activations only.
ProcError(p) ==
  LET pr == procs[p]
      seen == [pr EXCEPT !.errored = TRUE, !.noClose = TRUE,
                         !.timeoutHandle = ClearTimeout(@)]
      n == Failed(PlainError("launch"))
  IN /\ ~pr.closed
     /\ ~pr.errored
     /\ ~pr.stopped
     /\ ProcStep(p, SubjTerminate(seen, n), n)

\* TimeoutFire that requests the kill and tells the subscriber nothing
TimeoutFireKillOnly(p) ==
  LET pr == procs[p]
      fired == [pr EXCEPT !.timeoutHandle = "fired"]
  IN /\ pr.timeoutHandle = "armed"
     /\ ProcStep(p, IF fired.killed THEN fired ELSE Kill(fired), NoOutcome)

\* the callback of the timeout timer, lines 423-430
TimeoutFire(p) ==
  LET pr == procs[p]
      fired == [pr EXCEPT !.timeoutHandle = "fired"]
      n == Failed(TimeoutError)
  IN /\ pr.timeoutHandle = "armed"
     /\ ProcStep(p, SubjTerminate(IF fired.killed THEN fired ELSE Kill(fired), n), n)

\* JobberKill calling kill only for a process that has not closed
JobberKillIfRunning(p) ==
  /\ procs[p].jobberTimer = "armed"
  /\ ProcStep(p, IF procs[p].closed
                   THEN [procs[p] EXCEPT !.jobberTimer = "fired"]
                   ELSE Kill([procs[p] EXCEPT !.jobberTimer = "fired"]), NoOutcome)

\* setTimeout(() => proc.kill(), 5 * 1000) of the jobber teardown
JobberKill(p) ==
  /\ procs[p].jobberTimer = "armed"
  /\ ProcStep(p, Kill([procs[p] EXCEPT !.jobberTimer = "fired"]), NoOutcome)

\* the opts.stdin source fails: error: subj.error.bind(subj)
StdinError(p, e) ==
  /\ procs[p].stdinSub = "subscribed"
  /\ ProcStep(p, SubjTerminate([procs[p] EXCEPT !.stdinSub = "errored"], Failed(e)), Failed(e))

\* the opts.stdin source completes: complete: () => stdin.end()
StdinComplete(p) ==
  /\ procs[p].stdinSub = "subscribed"
  /\ ProcStep(p, [procs[p] EXCEPT !.stdinSub = "completed", !.ends = @ + 1], NoOutcome)

\* StdinWrite putting the chunk in front of what was written
StdinWriteFront(pr, x) == [pr EXCEPT !.written = <<x>> \o @]

\* next: (x) => stdin.write(x)
StdinWrite(pr, x) == [pr EXCEPT !.written = Append(@, x)]

\* the opts.stdin source emits its next chunk
StdinNext(p) ==
  LET pr == procs[p]
  IN /\ pr.stdinSub = "subscribed"
     /\ Len(pr.written) < Len(StdinSource)
     /\ ProcStep(p, StdinWrite(pr, StdinSource[Len(pr.written) + 1]), NoOutcome)

(***************************************************************************)
(* The aggregations of spawnPromise: wrapObservableInPromise (merged) and  *)
(* wrapObservableInSplitPromise (split), subscribed to the stream as its   *)
(* consumer.  Their handlers run inside the notifications of the stream,   *)
(* so the promise of consumer c is settled by events[c] and outcome[c].    *)
(* A text is the sequence of the chunks it was put together from.          *)
(***************************************************************************)
\* an absent (undefined) property of an error, and a present one
Undefined == {}
Defined(v) == {v}

\* `${out}\n${e.message}`
WithOutput(out, message) == out \o <<"\n", message>>

\* next of the merged form: out += x, x being the text of the event
MergedNext(out, x) == Append(out, x.text)

\* SplitNext adding every text to out
SplitNextOutOnly(acc, x) == [acc EXCEPT !.out = Append(@, x.text)]

\* next of the split form
SplitNext(acc, x) ==
  IF x.source = "stdout"
    THEN [acc EXCEPT !.out = Append(@, x.text)]
    ELSE [acc EXCEPT !.err = Append(@, x.text)]

\* the buffers after the events ev
RECURSIVE MergedBuffer(_, _)
MergedBuffer(out, ev) ==
  IF ev = <<>> THEN out ELSE MergedBuffer(MergedNext(out, Head(ev)), Tail(ev))

RECURSIVE SplitBuffer(_, _)
SplitBuffer(acc, ev) ==
  IF ev = <<>> THEN acc ELSE SplitBuffer(SplitNext(acc, Head(ev)), Tail(ev))

\* the error a rejection is made with.  The SpawnErrors of the engine are
\* built without stdout and stderr, so e.stderr is undefined.
RejectionWithBuffers(e, out, stdout, stderr) ==
  [name |-> "SpawnError", message |-> WithOutput(out, e.message),
   exitCode |-> e.exitCode, code |-> e.exitCode, command |-> e.command,
   stdout |-> stdout, stderr |-> stderr]

\* MergedRejection without the output in the message
MergedRejectionBare(e, out) ==
  IF e.name = "SpawnError"
    THEN RejectionWithBuffers(e, <<>>, Defined(out), Undefined)
    ELSE [name |-> "Error", message |-> <<"\n", e.message>>,
          stdout |-> Undefined, stderr |-> Undefined]

\* error of the merged form, lines 581-589
MergedRejection(e, out) ==
  IF e.name = "SpawnError"
    THEN RejectionWithBuffers(e, out, Defined(out), Undefined)
    ELSE [name |-> "Error", message |-> WithOutput(out, e.message),
          stdout |-> Undefined, stderr |-> Undefined]

\* error of the split form, lines 608-616
SplitRejection(e, acc) ==
  IF e.name = "SpawnError"
    THEN RejectionWithBuffers(e, acc.out, Defined(acc.out), Defined(acc.err))
    ELSE [name |-> "Error", message |-> WithOutput(acc.out, e.message),
          stdout |-> Undefined, stderr |-> Undefined]

\* the promise returned by wrapObservableInPromise for consumer c
MergedPromise(c) ==
  LET out == MergedBuffer(<<>>, events[c])
  IN CASE outcome[c].kind = "complete" -> [state |-> "resolved", value |-> out]
       [] outcome[c].kind = "error" ->
            [state |-> "rejected", reason |-> MergedRejection(outcome[c].err, out)]
       [] OTHER -> [state |-> "pending"]

\* the promise returned by wrapObservableInSplitPromise for consumer c
SplitPromise(c) ==
  LET acc == SplitBuffer([out |-> <<>>, err |-> <<>>], events[c])
  IN CASE outcome[c].kind = "complete" ->
            [state |-> "resolved", value |-> <<acc.out, acc.err>>]
       [] outcome[c].kind = "error" ->
            [state |-> "rejected", reason |-> SplitRejection(outcome[c].err, acc)]
       [] OTHER -> [state |-> "pending"]

(***************************************************************************)
(* Specifications.                                                         *)
(***************************************************************************)
\* the paths the file system knows: exe a in the current directory and in
\* the directories p and q
WorldPaths == {PathJoin(d, <<"a">>) : d \in {<<".">>, <<"p">>, <<"q">>}}

\* one world for the streams whose resolution is not looked at
\* the stream was made by spawn(exe, params, opts) itself
PlainCall == params = Params /\ detachedCall = {}

FixedWorld ==
  /\ platform = "posix"
  /\ exe = <<"a">>
  /\ envPath = {<<"p">>}
  /\ fs = [f \in WorldPaths |-> "found"]
  /\ resolved = {}
  /\ PlainCall

InitWith(cs, os) ==
  /\ opts \in os
  /\ consumers = cs
  /\ procs = <<>>
  /\ sub = [c \in Consumers |-> "idle"]
  /\ innerSub = [c \in Consumers |-> 0]
  /\ soFar = [c \in Consumers |-> 0]
  /\ retryTimer = [c \in Consumers |-> {}]
  /\ events = [c \in Consumers |-> <<>>]
  /\ outcome = [c \in Consumers |-> NoOutcome]

\* one consumer, every combination of options; the stdin source of these
\* streams emits no chunk before it completes or fails
Init == InitWith({1}, OptionSpace) /\ FixedWorld

Next ==
  \/ \E c \in Consumers : Subscribe(c)
  \/ \E c \in Consumers : Unsubscribe(c)
  \/ \E c \in Consumers : RetryTimerFire(c)
  \/ \E p \in Pids, s \in Sources, b \in Chunks : Data(p, s, b)
  \/ \E p \in Pids, s \in Sources : PipeClose(p, s)
  \/ \E p \in Pids, code \in ExitCodes : ProcClose(p, code)
  \/ \E p \in Pids : ProcError(p)
  \/ \E p \in Pids : TimeoutFire(p)
  \/ \E p \in Pids : JobberKill(p)
  \/ \E p \in Pids, e \in StdinErrors : StdinError(p, e)
  \/ \E p \in Pids : StdinComplete(p)

Spec == Init /\ [][Next]_vars

\* two consumers of one stream, for a stream without retries, timeout, stdin
\* source and jobber
InitShared ==
  /\ InitWith({1, 2}, {o \in OptionSpace :
                         /\ o.retries = 0 /\ o.timeout = 0 /\ ~o.stdin /\ ~o.jobber
                         /\ o.stdio.stdout = "pipe"})
  /\ FixedWorld

NextShared ==
  \/ \E c \in Consumers : Subscribe(c)
  \/ \E c \in Consumers : Unsubscribe(c)
  \/ \E p \in Pids, s \in Sources, b \in Chunks : Data(p, s, b)
  \/ \E p \in Pids, s \in Sources : PipeClose(p, s)
  \/ \E p \in Pids, code \in ExitCodes : ProcClose(p, code)
  \/ \E p \in Pids : ProcError(p)

SpecShared == InitShared /\ [][NextShared]_vars

\* one consumer of a stream with a stdin source that emits chunks, without
\* timeout and jobber
InitStdin ==
  /\ InitWith({1}, {o \in OptionSpace : o.stdin /\ o.timeout = 0 /\ ~o.jobber})
  /\ FixedWorld

NextStdin ==
  \/ \E c \in Consumers : Subscribe(c)
  \/ \E c \in Consumers : Unsubscribe(c)
  \/ \E c \in Consumers : RetryTimerFire(c)
  \/ \E p \in Pids, s \in Sources, b \in Chunks : Data(p, s, b)
  \/ \E p \in Pids, s \in Sources : PipeClose(p, s)
  \/ \E p \in Pids, code \in ExitCodes : ProcClose(p, code)
  \/ \E p \in Pids : ProcError(p)
  \/ \E p \in Pids, e \in StdinErrors : StdinError(p, e)
  \/ \E p \in Pids : StdinComplete(p)
  \/ \E p \in Pids : StdinNext(p)

SpecStdin == InitStdin /\ [][NextStdin]_vars

\* the stream consumed by an aggregation: one consumer that never detaches,
\* both pipes, no retries and no jobber; two chunk texts and one more event
\* than elsewhere, so that the order of the texts shows
OutputChunks == {"", "a", "b"}

InitOutput ==
  /\ InitWith({1}, {o \in OptionSpace :
                      /\ o.retries = 0 /\ ~o.jobber
                      /\ o.stdio.stdout = "pipe" /\ o.stdio.stderr = "pipe"})
  /\ FixedWorld

NextOutput ==
  \/ \E c \in Consumers : Subscribe(c)
  \/ \E p \in Pids, s \in Sources, b \in OutputChunks : DataUpTo(p, s, b, MaxEvents + 1)
  \/ \E p \in Pids, s \in Sources : PipeClose(p, s)
  \/ \E p \in Pids, code \in ExitCodes : ProcClose(p, code)
  \/ \E p \in Pids : ProcError(p)
  \/ \E p \in Pids : TimeoutFire(p)
  \/ \E p \in Pids, e \in StdinErrors : StdinError(p, e)
  \/ \E p \in Pids : StdinComplete(p)

SpecOutput == InitOutput /\ [][NextOutput]_vars

\* direct calls of the resolver functions, for every platform, exe, PATH
\* and file system of the bounds
Exes == {<<"a">>, <<"b">>, <<"p", "/", "a">>, <<"p", "\\", "a">>}
PathTokens == {"p", "q", ":", ";"}

InitResolver ==
  /\ InitWith({1}, {o \in OptionSpace :
                      /\ o.retries = 0 /\ o.timeout = 0 /\ ~o.stdin /\ ~o.jobber
                      /\ o.stdio.stdout = "pipe" /\ o.stdio.stderr = "pipe"})
  /\ platform \in Platforms
  /\ exe \in Exes
  /\ envPath \in {{}} \cup {{v} : v \in SeqsUpTo(PathTokens, MaxPathLen)}
  /\ fs \in [WorldPaths -> StatOutcomes]
  /\ resolved = {}
  /\ PlainCall

\* runDownPath(exe) is called
RunDownPathCall ==
  /\ resolved' = {[fn |-> "runDownPath", cmd |-> runDownPath(exe)]}
  /\ UNCHANGED <<opts, consumers, procs, sub, innerSub, soFar, retryTimer, events, outcome,
                 platform, exe, params, detachedCall, envPath, fs>>

\* findActualExecutable(exe, params) is called; the record keeps the inputs
\* the call was made on, and whether an earlier call was made on the same
\* inputs
FindActualExecutableCall ==
  LET at == [platform |-> platform, exe |-> exe, args |-> params,
             envPath |-> envPath, fs |-> fs]
      before == {q \in resolved : q.fn = "findActualExecutable" /\ q.at = at}
  IN
  /\ resolved' = {q \in resolved : q.fn = "findActualExecutable"} \cup
                 {[fn |-> "findActualExecutable", at |-> at, again |-> before # {},
                   calls |-> Calls(exe),
                   cmd |-> findActualExecutable(exe, params).cmd,
                   args |-> findActualExecutable(exe, params).args]}
  /\ UNCHANGED <<opts, consumers, procs, sub, innerSub, soFar, retryTimer, events, outcome,
                 platform, exe, params, detachedCall, envPath, fs>>

NextResolver == RunDownPathCall \/ FindActualExecutableCall

SpecResolver == InitResolver /\ [][NextResolver]_vars

\* the file system changes under a stream: a path appears or disappears
FsChange(f) ==
  /\ fs' = [fs EXCEPT ![f] = IF @ = "found" THEN "ENOENT" ELSE "found"]
  /\ UNCHANGED <<opts, consumers, procs, sub, innerSub, soFar, retryTimer, events, outcome,
                 platform, exe, params, detachedCall, envPath, resolved>>

\* two consumers of one stream with retries whose process has no pipes,
\* while the file system changes
InitReuse ==
  /\ InitWith({1, 2}, {o \in OptionSpace :
                         /\ o.retries = 1 /\ o.retryDelay = {} /\ o.timeout = 0
                         /\ ~o.stdin /\ ~o.jobber
                         /\ o.stdio.stdout = "ignore" /\ o.stdio.stderr = "ignore"})
  /\ platform = "posix"
  /\ exe = <<"a">>
  /\ envPath = {<<"p">>}
  /\ fs \in [WorldPaths -> {"found"}]
  /\ resolved = {}
  /\ PlainCall

NextReuse ==
  \/ \E c \in Consumers : Subscribe(c)
  \/ \E c \in Consumers : Unsubscribe(c)
  \/ \E c \in Consumers : RetryTimerFire(c)
  \/ \E p \in Pids, code \in ExitCodes : ProcClose(p, code)
  \/ \E f \in {<<"a">>, <<"p", "/", "a">>} : FsChange(f)

SpecReuse == InitReuse /\ [][NextReuse]_vars

(***************************************************************************)
(* Properties.                                                             *)
(***************************************************************************)
\* the consumers that have subscribed, and the activation of a consumer's
\* current (latest) attempt
Attached == {c \in Consumers : innerSub[c] # 0}
Cur(c) == procs[innerSub[c]]
AttemptsOf(c) == {p \in Pids : procs[p].owner = c}

\* n is the exit failure of the stream's own process
IsExitFailure(n) ==
  /\ n.kind = "error"
  /\ n.err.name = "SpawnError"
  /\ n.err.command = Cmd
  /\ n.err.message = "exit"

\* the termination requests sent to a process: kill() calls and connects to
\* the jobber pipe
Requests(pr) == pr.kills + pr.connects

PipesNotOpen(pr) == pr.stdout # "open" /\ pr.stderr # "open"

\* C1 as stated: no terminal notification, completion or any error, reaches
\* the consumer before the process has closed and every piped channel has
\* closed.
C1_NoTerminalBeforeClose ==
  \A c \in Attached :
    outcome[c].kind # "none" => Cur(c).closed /\ PipesNotOpen(Cur(c))

\* C1 amended: completion and the exit failure of the process are never
\* delivered, by an activation to its subscriber or to the consumer, before
\* the 'close' of the process has been observed and every piped channel has
\* closed.
C1_NaturalEndAfterClose ==
  /\ \A p \in Pids :
       procs[p].term = Completed \/ IsExitFailure(procs[p].term)
         => procs[p].closed /\ PipesNotOpen(procs[p])
  /\ \A c \in Attached :
       outcome[c] = Completed \/ IsExitFailure(outcome[c])
         => Cur(c).closed /\ PipesNotOpen(Cur(c))

\* a stream that completed with both pipes piped and closed
C1_Witness ==
  \E c \in Attached :
    /\ outcome[c] = Completed
    /\ Cur(c).stdout = "closed"
    /\ Cur(c).stderr = "closed"

\* C2, the state part: once the process has closed and no pipe is open the
\* activation has ended; it ended in completion only for a close with code
\* 0, and in an exit failure only for a close with a code N # 0, with
\* exitCode = code = N; the consumer sees completion only from such an
\* activation.
C2_CodeDecides ==
  \A c \in Attached :
    LET pr == Cur(c)
    IN /\ pr.closed /\ PipesNotOpen(pr) => pr.stopped
       /\ pr.term = Completed => pr.closed /\ pr.code = 0
       /\ IsExitFailure(pr.term) =>
            /\ pr.closed
            /\ pr.code # 0
            /\ pr.term.err.exitCode = pr.code
            /\ pr.term.err.code = pr.code
       /\ outcome[c] = Completed => pr.term = Completed
       /\ IsExitFailure(outcome[c]) => outcome[c] = pr.term

\* C2, the step part: a consumer that has received its terminal notification
\* receives no further event.
C2_Quiet ==
  \A c \in Consumers : outcome[c].kind # "none" => events'[c] = events[c]

\* C2: a close with code 0 ends the stream in completion and nothing
\* follows; a close with code N # 0 ends it in a SpawnError with exitCode =
\* code = N; the stream never completes for a close whose code is not 0.
C2_ExitCode == []C2_CodeDecides /\ [][C2_Quiet]_vars

\* a consumer that received an event and then the exit failure of a close
\* with code 2
C2_Witness ==
  \E c \in Attached :
    /\ IsExitFailure(outcome[c])
    /\ outcome[c].err.exitCode = 2
    /\ Cur(c).code = 2
    /\ Len(events[c]) > 0

\* C3 as stated: when all consumers of the stream are attached together,
\* exactly one process has been launched and they have seen the same events.
C3_OneSharedProcess ==
  (Cardinality(consumers) >= 2 /\ \A c \in consumers : sub[c] = "active")
    => /\ Len(procs) = 1
       /\ \A c, d \in consumers : events[c] = events[d]

\* C4, the step part: the step in which a consumer detaches from a running
\* attempt sends no termination request if the 'close' of the process has
\* been observed and exactly one (a kill, or a connect to the jobber pipe)
\* if not, and leaves every other process alone.
C4_Detach ==
  \A c \in Attached :
    sub[c] = "active" /\ sub'[c] = "detached" =>
      LET p == innerSub[c]
      IN /\ Requests(procs'[p]) =
              Requests(procs[p]) + (IF procs[p].closed THEN 0 ELSE 1)
         /\ \A q \in Pids \ {p} : procs'[q] = procs[q]

\* C4, the state part: the process of an attempt that was ended by
\* detachment has been connected to at most once and, without jobber, been
\* killed at most once.
C4_Once ==
  \A c \in Attached :
    sub[c] = "detached" /\ Cur(c).term = NoOutcome =>
      /\ Cur(c).connects <= 1
      /\ ~opts.jobber => Cur(c).kills <= 1

\* C4: detaching after the process has closed issues no termination
\* request; detaching before it issues exactly one.
C4_GuardedCancel == [][C4_Detach]_vars /\ []C4_Once

\* a consumer that detached after the close of its process (the pipes had
\* not closed yet): no request was sent
C4_Witness ==
  \E c \in Attached :
    /\ sub[c] = "detached"
    /\ Cur(c).term = NoOutcome
    /\ Cur(c).closed
    /\ Requests(Cur(c)) = 0

C6_TimerCancelled ==
  \A p \in Pids : procs[p].stopped => procs[p].timeoutHandle # "armed"

\* an activation stopped by detachment before its process closed: only the
\* teardown can have cleared its timer
C6_Witness ==
  \E p \in Pids :
    /\ procs[p].stopped
    /\ procs[p].term = NoOutcome
    /\ ~procs[p].noClose
    /\ procs[p].timeoutHandle = "cleared"

\* C7: a consumer never has more than opts.retries + 1 attempts; when every
\* attempt of a stream with retries = R > 0 has ended in its exit failure
\* and the consumer has received an error, R + 1 processes were launched and
\* the error is the failure of the last attempt, with the code that attempt
\* closed with.
C7_RetryCount ==
  \A c \in Attached :
    /\ Cardinality(AttemptsOf(c)) <= opts.retries + 1
    /\ ( /\ HasRetry
         /\ outcome[c].kind = "error"
         /\ \A p \in AttemptsOf(c) : IsExitFailure(procs[p].term) )
       => /\ Cardinality(AttemptsOf(c)) = opts.retries + 1
          /\ outcome[c] = Cur(c).term
          /\ outcome[c].err.exitCode = Cur(c).code

\* retries exhausted by exit failures, the last attempt closing with another
\* code than an earlier one
C7_Witness ==
  \E c \in Attached :
    /\ HasRetry
    /\ IsExitFailure(outcome[c])
    /\ Cardinality(AttemptsOf(c)) = opts.retries + 1
    /\ \A p \in AttemptsOf(c) : IsExitFailure(procs[p].term)
    /\ \E p \in AttemptsOf(c) : procs[p].term.err.exitCode # outcome[c].err.exitCode

\* n is an error other than the exit failure of the stream's own process
\* and other than its timeout: a launch failure, a stdin conflict, or an
\* error forwarded from the stdin source
IsOtherError(n) ==
  /\ n.kind = "error"
  /\ (n.err.name = "Error" \/ n.err.command # Cmd)

\* C8 as stated: an activation that ended in a launch failure, a stdin
\* conflict or an error of the stdin source is the consumer's last attempt,
\* and its error is the consumer's terminal notification.
C8_OtherErrorsNotRetried ==
  \A p \in Pids :
    IsOtherError(procs[p].term) =>
      /\ innerSub[procs[p].owner] = p
      /\ outcome[procs[p].owner] = procs[p].term

\* C9 as stated: an activation that ended in the timeout error is the
\* consumer's last attempt, and the timeout error is the consumer's terminal
\* notification.
C9_TimeoutNotRetried ==
  \A p \in Pids :
    procs[p].term = Failed(TimeoutError) =>
      /\ innerSub[procs[p].owner] = p
      /\ outcome[procs[p].owner] = procs[p].term

\* C10, the state part: while a consumer waits for a retry, and only then,
\* its delay timer is pending, with opts.retryDelay, or 1000 if that is
\* undefined.
C10_TimerPending ==
  \A c \in Consumers :
    IF sub[c] = "retryWait"
      THEN retryTimer[c] =
             {IF opts.retryDelay = {} THEN 1000 ELSE CHOOSE x \in opts.retryDelay : TRUE}
      ELSE retryTimer[c] = {}

\* C10, the step part: the step in which an attempt fails and is to be
\* retried launches nothing, and an attempt after the first is launched only
\* by the step in which the pending delay timer fires.
C10_Step ==
  \A c \in Attached :
    /\ sub[c] = "active" /\ sub'[c] = "retryWait" =>
         /\ Len(procs') = Len(procs)
         /\ procs'[innerSub[c]].term.kind = "error"
    /\ innerSub'[c] # innerSub[c] =>
         /\ sub[c] = "retryWait"
         /\ retryTimer[c] # {}
         /\ retryTimer'[c] = {}

\* C10: no retry attempt is launched before the delay timer started by the
\* failure of the previous attempt has fired.
C10_RetryDelay == []C10_TimerPending /\ [][C10_Step]_vars

\* a second attempt launched after the default delay
C10_Witness ==
  \E c \in Attached :
    /\ Cur(c).attempt = 2
    /\ opts.retryDelay = {}
    /\ sub[c] = "active"

\* C11, the step part: the step that starts an attempt for a consumer (a
\* first subscription, a new subscription of another consumer, a retry)
\* launches one new process, whose command is what findActualExecutable
\* yields for exe in the file system of that moment; the process is fresh
\* and is the consumer's alone, and the processes that exist keep their
\* owners and commands.
C11_Step ==
  \A c \in Consumers :
    innerSub'[c] # innerSub[c] =>
      LET new == procs'[Len(procs')]
      IN /\ Len(procs') = Len(procs) + 1
         /\ innerSub'[c] = Len(procs')
         /\ new.owner = c
         /\ new.cmd = findActualExecutable(exe, params).cmd
         /\ new.args = findActualExecutable(exe, params).args
         /\ ~new.closed /\ new.kills = 0 /\ new.connects = 0
         /\ \A d \in Consumers \ {c} : innerSub'[d] # Len(procs')
         /\ \A q \in Pids : /\ procs'[q].owner = procs[q].owner
                            /\ procs'[q].pid = procs[q].pid
                            /\ procs'[q].cmd = procs[q].cmd

\* C11, the state part: every process handle belongs to one activation: no
\* two consumers share a current process, no two processes share a pid or
\* an (owner, attempt) pair.
C11_OwnHandle ==
  /\ \A c, d \in Attached : c # d => innerSub[c] # innerSub[d]
  /\ \A p, q \in Pids :
       p # q => /\ procs[p].pid # procs[q].pid
                /\ <<procs[p].owner, procs[p].attempt>> # <<procs[q].owner, procs[q].attempt>>

\* C11: every activation resolves the executable again and launches a new
\* process; no process handle is used by two activations.
C11_FreshActivation == [][C11_Step]_vars /\ []C11_OwnHandle

\* a retry attempt and the subscription of a second consumer, each resolved
\* to another command than the first attempt because the file system changed
\* in between
C11_Witness ==
  \E c, d \in Attached :
    /\ c # d
    /\ Cardinality(AttemptsOf(c)) = 2
    /\ \E p \in AttemptsOf(c) : procs[p].cmd # Cur(c).cmd
    /\ \E p \in AttemptsOf(c) : procs[p].cmd # Cur(d).cmd /\ Cur(c).cmd # Cur(d).cmd

\* the texts of the events of ev that come from the source src, in order
TextsOf(ev, src) ==
  LET idx == {i \in 1..Len(ev) : ev[i].source \in src}
      RECURSIVE Pick(_)
      Pick(i) == IF i > Len(ev) THEN <<>>
                 ELSE (IF i \in idx THEN <<ev[i].text>> ELSE <<>>) \o Pick(i + 1)
  IN Pick(1)

\* C12 as stated: for a stream that completed, the merged form resolves
\* with the texts of the stdout events and the split form with that and the
\* empty text.
C12_StdoutOnly ==
  \A c \in Attached :
    outcome[c] = Completed =>
      /\ MergedPromise(c) = [state |-> "resolved", value |-> TextsOf(events[c], {"stdout"})]
      /\ SplitPromise(c) =
           [state |-> "resolved", value |-> <<TextsOf(events[c], {"stdout"}), <<>>>>]

\* C12: for a stream that completed, the merged form resolves with the
\* texts of all events, stdout and stderr, in arrival order, and the split
\* form with the pair of the stdout texts and the stderr texts, each in
\* arrival order; a promise is resolved only for a completed stream.
C12_Resolved ==
  \A c \in Attached :
    /\ outcome[c] = Completed =>
         /\ MergedPromise(c) =
              [state |-> "resolved", value |-> [i \in 1..Len(events[c]) |-> events[c][i].text]]
         /\ SplitPromise(c) =
              [state |-> "resolved",
               value |-> <<TextsOf(events[c], {"stdout"}), TextsOf(events[c], {"stderr"})>>]
    /\ outcome[c] # Completed =>
         MergedPromise(c).state # "resolved" /\ SplitPromise(c).state # "resolved"

\* a process that wrote to stderr and closed with code 0
C12_Witness ==
  \E c \in Attached :
    /\ outcome[c] = Completed
    /\ Cur(c).code = 0 /\ Cur(c).closed
    /\ \E i \in 1..Len(events[c]) : events[c][i].source = "stderr"
    /\ SplitPromise(c).value[2] # <<>>
    /\ MergedPromise(c).value = <<"b", "a">>

\* the text t occurs in the message msg
Contains(msg, t) == \E i \in 1..Len(msg) : msg[i] = t

\* C13 as stated: when the stream ends in the exit failure with code N,
\* both forms reject with an error whose exitCode and code are N and whose
\* message contains the text of every output event, stdout and stderr.
C13_MessageHasAllOutput ==
  \A c \in Attached :
    IsExitFailure(outcome[c]) =>
      \A pm \in {MergedPromise(c), SplitPromise(c)} :
        /\ pm.state = "rejected"
        /\ pm.reason.exitCode = Cur(c).code /\ pm.reason.code = Cur(c).code
        /\ \A i \in 1..Len(events[c]) : Contains(pm.reason.message, events[c][i].text)

\* C13: when the stream ends in the exit failure with code N, both forms
\* reject with a SpawnError whose exitCode and code are N.  The message of
\* the merged form is the text of all events, stdout and stderr, in arrival
\* order, followed by a line break and the failure's message; the message
\* of the split form is built likewise from the stdout texts only, and the
\* stderr texts are its stderr property.
C13_Rejected ==
  \A c \in Attached :
    IsExitFailure(outcome[c]) =>
      LET all == [i \in 1..Len(events[c]) |-> events[c][i].text]
          out == TextsOf(events[c], {"stdout"})
          err == TextsOf(events[c], {"stderr"})
          m == MergedPromise(c)
          sp == SplitPromise(c)
      IN /\ m.state = "rejected" /\ sp.state = "rejected"
         /\ m.reason.name = "SpawnError" /\ sp.reason.name = "SpawnError"
         /\ Cur(c).code # 0
         /\ m.reason.exitCode = Cur(c).code /\ m.reason.code = Cur(c).code
         /\ sp.reason.exitCode = Cur(c).code /\ sp.reason.code = Cur(c).code
         /\ m.reason.message = all \o <<"\n", outcome[c].err.message>>
         /\ m.reason.stdout = {all}
         /\ sp.reason.message = out \o <<"\n", outcome[c].err.message>>
         /\ sp.reason.stdout = {out}
         /\ sp.reason.stderr = {err}

\* a process that wrote b to stderr, then a to stdout, and closed with
\* code 2
C13_Witness ==
  \E c \in Attached :
    /\ IsExitFailure(outcome[c])
    /\ Cur(c).code = 2
    /\ events[c] = <<[source |-> "stderr", text |-> "b"], [source |-> "stdout", text |-> "a"]>>
    /\ MergedPromise(c).reason.message = <<"b", "a", "\n", "exit">>

\* C14 as stated: whatever error the stream ends in, the split form rejects
\* with an error that has the stdout texts as its stdout and the stderr
\* texts as its stderr.
C14_BuffersAttached ==
  \A c \in Attached :
    outcome[c].kind = "error" =>
      /\ SplitPromise(c).state = "rejected"
      /\ SplitPromise(c).reason.stdout = {TextsOf(events[c], {"stdout"})}
      /\ SplitPromise(c).reason.stderr = {TextsOf(events[c], {"stderr"})}

\* n is the error of the process handle's 'error' notification
IsLaunchFailure(n) == n = Failed(PlainError("launch"))

\* C15, the step part: the step of the 'error' notification of a running
\* activation ends the activation with that error and hands it to the
\* consumer in the same step, whatever the state of the process and of its
\* pipes; it sets noClose, leaves no timeout timer armed and sends no
\* termination request.
C15_Step ==
  \A p \in Pids :
    procs'[p].errored /\ ~procs[p].errored =>
      /\ IsLaunchFailure(procs'[p].term)
      /\ outcome'[procs[p].owner] = procs'[p].term
      /\ sub'[procs[p].owner] = "terminated"
      /\ procs'[p].noClose
      /\ procs'[p].timeoutHandle # "armed"
      /\ Requests(procs'[p]) = Requests(procs[p])
      /\ Len(procs') = Len(procs)

\* C15, the state part: a process whose activation ended in a launch
\* failure has never been sent a termination request.
C15_NoRequest ==
  \A p \in Pids : IsLaunchFailure(procs[p].term) => Requests(procs[p]) = 0

\* C15: a launch failure ends the stream at once, without waiting for the
\* close of the process or of a pipe, and the teardown that follows sends no
\* termination request.
C15_LaunchFailure == [][C15_Step]_vars /\ []C15_NoRequest

\* a launch failure delivered while the process had not closed and both
\* pipes were open
C15_Witness ==
  \E c \in Attached :
    /\ IsLaunchFailure(outcome[c])
    /\ ~Cur(c).closed
    /\ Cur(c).stdout = "open" /\ Cur(c).stderr = "open"
    /\ Cur(c).stopped
    /\ Requests(Cur(c)) = 0

\* C16 as stated: what has been written to the input of a child is what its
\* stdin source has emitted, in that order; the input has been ended once
\* if the source has completed and never otherwise; and the error of a
\* source that failed is the terminal notification of the stream.
C16_StdinForwarded ==
  \A p \in Pids :
    LET pr == procs[p]
    IN /\ pr.written = SubSeq(StdinSource, 1, Len(pr.written))
       /\ pr.ends = (IF pr.stdinSub = "completed" THEN 1 ELSE 0)
       /\ pr.stdinSub = "errored" =>
            /\ pr.term \in {Failed(e) : e \in StdinErrors}
            /\ outcome[pr.owner] = pr.term

\* n is the stdin-conflict error
IsStdinConflict(n) == n = Failed(PlainError("conflict"))

\* C17: for a stream with a stdin source whose child has no writable input
\* (stdio's stdin is not "pipe"), a consumer that has subscribed has
\* received the stdin-conflict error as its terminal notification, from its
\* first and only attempt, and has received no output event, whatever the
\* process has done since; no other stream ends in that error.
C17_StdinConflict ==
  \A c \in Attached :
    IF opts.stdin /\ opts.stdio.stdin # "pipe"
      THEN /\ IsStdinConflict(outcome[c])
           /\ sub[c] = "terminated"
           /\ events[c] = <<>>
           /\ AttemptsOf(c) = {innerSub[c]}
           /\ IsStdinConflict(Cur(c).term)
      ELSE /\ ~IsStdinConflict(outcome[c])
           /\ \A p \in Pids : ~IsStdinConflict(procs[p].term)

\* after the conflict error the process has gone on and closed while a pipe
\* is still open
C17_Witness ==
  \E c \in Attached :
    /\ IsStdinConflict(outcome[c])
    /\ Cur(c).closed
    /\ Cur(c).stdout = "open"
    /\ events[c] = <<>>

\* C18 as stated: a process whose activation ended in the stdin-conflict
\* error has been sent no termination request.
C18_LeftRunning ==
  \A p \in Pids : IsStdinConflict(procs[p].term) => Requests(procs[p]) = 0

\* C18: a process whose activation ended in the stdin-conflict error has
\* been sent the termination request of the teardown: without jobber one
\* kill, delivered if the process had not closed by itself before; with
\* jobber one connect to the pipe of its pid, and the kill of the jobber
\* timer once that has fired.
C18_TornDown ==
  \A p \in Pids :
    IsStdinConflict(procs[p].term) =>
      LET pr == procs[p]
      IN /\ pr.stopped
         /\ pr.timeoutHandle # "armed"
         /\ IF opts.jobber
              THEN /\ pr.connects = 1 /\ pr.jobberPipe = {pr.pid}
                   /\ pr.kills = (IF pr.jobberTimer = "fired" THEN 1 ELSE 0)
              ELSE /\ pr.connects = 0 /\ pr.kills = 1 /\ pr.killed

\* a stdin conflict without jobber: the process launched by the activation
\* has been killed
C18_Witness ==
  \E p \in Pids :
    /\ IsStdinConflict(procs[p].term)
    /\ ~opts.jobber
    /\ procs[p].kills = 1 /\ procs[p].killed
    /\ ~procs[p].closed

\* C19 as stated, the fallback: the step of the jobber timer calls kill
\* only for a process that has not closed.
C19_KillOnlyIfRunning ==
  [][\A p \in Pids :
       (procs[p].jobberTimer = "armed" /\ procs'[p].jobberTimer = "fired" /\ procs[p].closed)
         => procs'[p].kills = procs[p].kills]_vars

\* C19, the step part: in jobber mode the teardown of a process whose close
\* has not been observed calls no kill; the step of the jobber timer calls
\* kill whether the process has closed or not, and for a process that has
\* closed the call delivers no signal.
C19_Step ==
  \A p \in Pids :
    /\ procs'[p].connects # procs[p].connects =>
         /\ opts.jobber /\ ~procs[p].noClose
         /\ procs'[p].connects = 1
         /\ procs'[p].jobberTimer = "armed"
         /\ procs'[p].kills = procs[p].kills
              + (IF procs'[p].timeoutHandle = "fired" /\ procs[p].timeoutHandle = "armed"
                    /\ ~procs[p].killed THEN 1 ELSE 0)
    /\ (procs[p].jobberTimer = "armed" /\ procs'[p].jobberTimer = "fired") =>
         /\ procs'[p].kills = procs[p].kills + 1
         /\ procs[p].closed => procs'[p].killed = procs[p].killed
         /\ ~procs[p].closed => procs'[p].killed

\* C19, the state part: a connect goes to the pipe of the pid of the
\* process the teardown belongs to, at most once, and only in jobber mode;
\* the kill timer is set to 5000 ms by that connect and by nothing else.
C19_Pipe ==
  \A p \in Pids :
    LET pr == procs[p]
    IN /\ pr.connects \in {0, 1}
       /\ ~opts.jobber => pr.connects = 0
       /\ pr.jobberPipe = (IF pr.connects = 1 THEN {pr.pid} ELSE {})
       /\ pr.jobberDelay = (IF pr.connects = 1 THEN {5000} ELSE {})
       /\ (pr.jobberTimer # "none") = (pr.connects = 1)

\* C19: in jobber mode a teardown before the close of the process connects
\* to the pipe keyed by its pid and starts a 5 second timer that is never
\* cancelled; when it fires kill is called unconditionally, and a process
\* that has closed by then receives no signal from it.
C19_Jobber == [][C19_Step]_vars /\ []C19_Pipe

\* the jobber timer has fired for a process that had closed within the
\* delay: kill was called, no signal was delivered
C19_Witness ==
  \E p \in Pids :
    /\ procs[p].jobberTimer = "fired"
    /\ procs[p].closed
    /\ procs[p].kills = 1
    /\ ~procs[p].killed
    /\ procs[p].jobberPipe = {procs[p].pid}

\* the candidates of the PATH search for exe, in the order of the search:
\* the current-directory candidate, then one per PATH entry
Candidates ==
  LET entries == IF envPath = {} THEN <<>>
                 ELSE Split(CHOOSE v \in envPath : TRUE, IF isWindows THEN ";" ELSE ":")
  IN <<PathJoin(<<".">>, exe)>> \o [i \in 1..Len(entries) |-> PathJoin(entries[i], exe)]

\* C20: runDownPath(exe) returns exe itself if exe contains a separator;
\* otherwise the first candidate whose stat succeeds, the current-directory
\* candidate coming before the PATH entries and these in PATH order; and exe
\* itself if the stat of every candidate fails, by absence or by any other
\* error.
C20_RunDownPath ==
  \A r \in resolved :
    r.fn = "runDownPath" =>
      LET exist == {i \in 1..Len(Candidates) : StatSync(Candidates[i]) = "found"}
      IN /\ HasSeparator(exe) => r.cmd = exe
         /\ (~HasSeparator(exe) /\ exist = {}) => r.cmd = exe
         /\ (~HasSeparator(exe) /\ exist # {}) =>
              /\ r.cmd \in {Candidates[i] : i \in exist}
              /\ \A i \in exist : r.cmd # Candidates[i] =>
                   \E j \in exist : j < i /\ r.cmd = Candidates[j]

\* the stat of the current-directory candidate fails with an error, the
\* first PATH entry has no such file, the second has it: the result is the
\* candidate of the second entry
C20_Witness ==
  \E r \in resolved :
    /\ r.fn = "runDownPath"
    /\ exe = <<"a">>
    /\ platform = "posix"
    /\ envPath = {<<"p", ":", "q">>}
    /\ StatSync(<<"a">>) = "EACCES"
    /\ StatSync(<<"p", "/", "a">>) = "ENOENT"
    /\ StatSync(<<"q", "/", "a">>) = "found"
    /\ r.cmd = <<"q", "/", "a">>

\* ---- the Windows resolution: extension search and dispatch ----

WinExes ==
  {<<"a">>, <<"a", ".exe">>, <<"a", ".bat">>, <<"a", ".CMD">>, <<"a", ".ps1">>,
   <<"a", ".PS1">>, <<"a", ".js">>, <<"a", ".JS">>, <<"p", "\\", "a">>}
WinFileNames ==
  {<<"a">>, <<"a", ".exe">>, <<"a", ".bat">>, <<"a", ".cmd">>, <<"a", ".CMD">>,
   <<"a", ".ps1">>, <<"a", ".PS1">>, <<"a", ".js">>, <<"a", ".JS">>}
WinFiles == {PathJoin(d, n) : d \in {<<".">>, <<"p">>, <<"q">>}, n \in WinFileNames}
WinPaths == {{}, {<<"q">>}, {<<"p", ";", "q">>}}

RECURSIVE SubsetsUpTo(_, _)
SubsetsUpTo(S, n) ==
  IF n = 0 THEN {{}}
  ELSE LET P == SubsetsUpTo(S, n - 1) IN P \cup {T \cup {x} : T \in P, x \in S}

InitWindows ==
  /\ InitWith({1}, {o \in OptionSpace :
                      /\ o.retries = 0 /\ o.timeout = 0 /\ ~o.stdin /\ ~o.jobber
                      /\ o.stdio.stdout = "pipe" /\ o.stdio.stderr = "pipe"})
  /\ platform = "win32"
  /\ exe \in WinExes
  /\ envPath \in WinPaths
  /\ fs \in {[f \in T |-> "found"] : T \in SubsetsUpTo(WinFiles, MaxFiles)}
  /\ resolved = {}
  /\ PlainCall

SpecWindows == InitWindows /\ [][NextResolver]_vars

\* the candidates of the PATH search for e, in the order they are tried
CandidatesOf(e) ==
  IF HasSeparator(e) THEN <<e>>
  ELSE
    LET entries == IF envPath = {} THEN <<>>
                   ELSE Split(CHOOSE v \in envPath : TRUE, IF isWindows THEN ";" ELSE ":")
    IN <<PathJoin(<<".">>, e)>> \o [i \in 1..Len(entries) |-> PathJoin(entries[i], e)]

\* the first existing candidate of e, if any
FirstExisting(e) ==
  LET exist == {i \in 1..Len(CandidatesOf(e)) : StatSync(CandidatesOf(e)[i]) = "found"}
  IN IF exist = {} THEN {} ELSE {CandidatesOf(e)[Min(exist)]}

\* the executable a result launches or hands to its script host
Target(r) ==
  IF r.cmd = PowerShellExe THEN r.args[6]
  ELSE IF r.cmd = CmdExe THEN r.args[2]
  ELSE IF r.cmd = ExecPath THEN r.args[1]
  ELSE r.cmd

\* C22: on Windows, for an exe that does not exist as given, the extensions
\* .exe, .bat, .cmd, .ps1 are tried in that order, each through the PATH
\* search, and the result is built on the first candidate that exists; a
\* later extension is never chosen when an earlier one exists.
C22_ExtensionOrder ==
  \A r \in resolved :
    (r.fn = "findActualExecutable" /\ isWindows /\ StatSync(exe) # "found") =>
      LET order == <<".exe", ".bat", ".cmd", ".ps1">>
          fits == {i \in 1..4 : FirstExisting(exe \o <<order[i]>>) # {}}
      IN /\ fits # {} => {Target(r)} = FirstExisting(exe \o <<order[Min(fits)]>>)
         /\ fits = {} => Target(r) = exe

\* a.cmd is in the current directory and a.bat only in the PATH entry q:
\* the earlier extension wins over the earlier directory
C22_Witness ==
  /\ platform = "win32" /\ exe = <<"a">> /\ envPath = {<<"q">>}
  /\ DOMAIN fs = {<<"a", ".cmd">>, <<"q", "\\", "a", ".bat">>}
  /\ \E r \in resolved :
       /\ r.fn = "findActualExecutable"
       /\ r.cmd = CmdExe
       /\ r.args = << <<"/C">>, <<"q", "\\", "a", ".bat">> >> \o Params

\* the executable the Windows branch settles on before the dispatch
WinTarget ==
  LET order == <<".exe", ".bat", ".cmd", ".ps1">>
      fits == {i \in 1..4 : FirstExisting(exe \o <<order[i]>>) # {}}
  IN IF StatSync(exe) # "found" /\ fits # {}
       THEN CHOOSE t \in FirstExisting(exe \o <<order[Min(fits)]>>) : TRUE
       ELSE exe

\* C23: on Windows the result is chosen by the extension of the executable,
\* whatever its case: .ps1 gives the PowerShell host with -ExecutionPolicy
\* Unrestricted -NoLogo -NonInteractive -File, the executable and the
\* caller's args; .bat and .cmd give the command interpreter with /C, the
\* executable and the args; .js gives the current runtime with the
\* executable and the args; anything else is passed through with the args.
C23_Dispatch ==
  \A r \in resolved :
    (r.fn = "findActualExecutable" /\ isWindows) =>
      LET t == WinTarget
          ext == t[Len(t)]
      IN /\ ext \in {".ps1", ".PS1"} =>
              /\ r.cmd = PowerShellExe
              /\ r.args = << <<"-ExecutionPolicy">>, <<"Unrestricted">>, <<"-NoLogo">>,
                             <<"-NonInteractive">>, <<"-File">>, t >> \o Params
         /\ ext \in {".bat", ".BAT", ".cmd", ".CMD"} =>
              r.cmd = CmdExe /\ r.args = << <<"/C">>, t >> \o Params
         /\ ext \in {".js", ".JS"} =>
              r.cmd = ExecPath /\ r.args = <<t>> \o Params
         /\ ext \notin {".ps1", ".PS1", ".bat", ".BAT", ".cmd", ".CMD", ".js", ".JS"} =>
              r.cmd = t /\ r.args = Params

\* an existing script a.PS1, its extension in capitals, goes to PowerShell
C23_Witness ==
  /\ platform = "win32" /\ exe = <<"a", ".PS1">> /\ StatSync(exe) = "found"
  /\ \E r \in resolved :
       /\ r.fn = "findActualExecutable"
       /\ r.cmd = PowerShellExe
       /\ r.args[6] = <<"a", ".PS1">>
       /\ r.args[7] = Params[1]

\* ---- repeated resolution while the file system changes ----

AgainFiles == {<<"a">>, PathJoin(<<"p">>, <<"a">>), <<"a", ".bat">>}

InitAgain ==
  /\ InitWith({1}, {o \in OptionSpace :
                      /\ o.retries = 0 /\ o.timeout = 0 /\ ~o.stdin /\ ~o.jobber
                      /\ o.stdio.stdout = "pipe" /\ o.stdio.stderr = "pipe"})
  /\ platform \in Platforms
  /\ exe = <<"a">>
  /\ envPath = {<<"p">>}
  /\ fs \in [AgainFiles -> {"ENOENT"}]
  /\ resolved = {}
  /\ PlainCall

NextAgain ==
  \/ FindActualExecutableCall
  \/ \E f \in AgainFiles : FsChange(f)

SpecAgain == InitAgain /\ [][NextAgain]_vars

OtherOptions ==
  {[echoOutput |-> TRUE],
   [split |-> TRUE, encoding |-> "hex"],
   [cwd |-> "w"],
   [cwd |-> "w", env |-> "e", detached |-> FALSE, shell |-> TRUE],
   [echoOutput |-> FALSE, split |-> FALSE, encoding |-> "utf8", cwd |-> "w"]}

InitOptions ==
  /\ \E o \in OptionSpace, x \in OtherOptions :
       /\ o.retries = 0 /\ ~o.stdin
       /\ o.stdio.stdout = "pipe" /\ o.stdio.stderr = "ignore"
       /\ InitWith({1}, {o @@ x})
  /\ FixedWorld

NextOptions ==
  \/ \E c \in Consumers : Subscribe(c)
  \/ \E c \in Consumers : Unsubscribe(c)
  \/ \E p \in Pids, source \in Sources, b \in Chunks : Data(p, source, b)
  \/ \E p \in Pids, source \in Sources : PipeClose(p, source)
  \/ \E p \in Pids, code \in ExitCodes : ProcClose(p, code)
  \/ \E p \in Pids : TimeoutFire(p)
  \/ \E p \in Pids : JobberKill(p)

SpecOptions == InitOptions /\ [][NextOptions]_vars

\* the options that are the engine's own
Extras ==
  {"stdin", "echoOutput", "split", "encoding", "jobber", "timeout", "retries", "retryDelay"}

\* C25 as stated: the options of a native launch contain none of stdin,
\* echoOutput, split, encoding, jobber, timeout, retries, retryDelay, and
\* every other option of the caller with its value.
C25_ExtrasRemoved ==
  \A p \in Pids :
    /\ DOMAIN procs[p].spawnOpts \cap Extras = {}
    /\ \A k \in DOMAIN opts \ Extras :
         k \in DOMAIN procs[p].spawnOpts /\ procs[p].spawnOpts[k] = opts[k]

\* ---- spawnDetached ----

\* the places where Jobber.exe is looked for, lines 317-330
PackageJobber == <<"pkg", "\\", "vendor", "\\", "jobber", "\\", "Jobber", ".exe">>
CwdJobber == <<"cwd", "\\", "vendor", "\\", "jobber", "\\", "Jobber", ".exe">>
ParentJobber == <<"cwd", "\\", "..", "\\", "vendor", "\\", "jobber", "\\", "Jobber", ".exe">>

\* let target = ...; if (!sfs.existsSync(target)) ...
JobberTarget ==
  IF existsSync(PackageJobber) THEN PackageJobber
  ELSE IF existsSync(CwdJobber) THEN CwdJobber
  ELSE IF existsSync(ParentJobber) THEN ParentJobber
  ELSE PackageJobber

\* spawnDetached with the options merged the other way round: what the
\* caller says about detached and jobber is kept
spawnDetachedCallerWins(e, ps, o) ==
  LET r == findActualExecutable(e, ps)
  IN IF ~isWindows
       THEN [exe |-> r.cmd, params |-> r.args, opts |-> o @@ [detached |-> TRUE]]
       ELSE [exe |-> JobberTarget, params |-> <<r.cmd>> \o r.args,
             opts |-> o @@ [detached |-> TRUE, jobber |-> TRUE]]

\* spawnDetached(exe, params, opts), lines 302-339: the arguments of the
\* spawn call it returns
spawnDetached(e, ps, o) ==
  LET r == findActualExecutable(e, ps)
  IN IF ~isWindows
       THEN [exe |-> r.cmd, params |-> r.args, opts |-> [detached |-> TRUE] @@ o]
       ELSE [exe |-> JobberTarget, params |-> <<r.cmd>> \o r.args,
             opts |-> [detached |-> TRUE, jobber |-> TRUE] @@ o]

DetachedFiles == {PathJoin(<<"p">>, <<"a">>), PackageJobber, CwdJobber}

InitDetached ==
  /\ platform \in Platforms
  /\ envPath = {<<"p">>}
  /\ fs \in {[f \in T |-> "found"] : T \in SUBSET DetachedFiles}
  /\ resolved = {}
  /\ \E o \in OptionSpace, x \in {[cwd |-> "w"], [detached |-> FALSE]} :
       /\ o.retries = 0 /\ o.timeout = 0 /\ ~o.stdin
       /\ o.stdio.stdout = "ignore" /\ o.stdio.stderr = "ignore"
       /\ detachedCall = {[exe |-> <<"a">>, params |-> Params, opts |-> o @@ x]}
       /\ exe = spawnDetached(<<"a">>, Params, o @@ x).exe
       /\ params = spawnDetached(<<"a">>, Params, o @@ x).params
       /\ InitWith({1}, {spawnDetached(<<"a">>, Params, o @@ x).opts})

NextDetached ==
  \/ \E c \in Consumers : Subscribe(c)
  \/ \E c \in Consumers : Unsubscribe(c)
  \/ \E p \in Pids, code \in ExitCodes : ProcClose(p, code)
  \/ \E p \in Pids : ProcError(p)
  \/ \E p \in Pids : JobberKill(p)

SpecDetached == InitDetached /\ [][NextDetached]_vars

\* what findActualExecutable makes of the arguments of the spawnDetached call
DetachedResolved ==
  LET call == CHOOSE d \in detachedCall : TRUE
  IN findActualExecutable(call.exe, call.params)

\* C26 as stated: a process of a spawnDetached stream is launched with
\* detached = true whatever the caller's options say; on Windows it is the
\* jobber binary with the resolved command and arguments as its arguments,
\* and jobber is set; elsewhere it is the resolved command itself, and no
\* teardown opens the jobber channel.
C26_JobberOnlyOnWindows ==
  \A p \in Pids :
    detachedCall # {} =>
      /\ procs[p].spawnOpts.detached = TRUE
      /\ isWindows =>
           /\ procs[p].cmd \in {PackageJobber, CwdJobber, ParentJobber}
           /\ procs[p].args = <<DetachedResolved.cmd>> \o DetachedResolved.args
           /\ opts.jobber
      /\ ~isWindows =>
           /\ procs[p].cmd = DetachedResolved.cmd
           /\ procs[p].args = DetachedResolved.args
           /\ procs[p].connects = 0

\* C26: a process of a spawnDetached stream is launched with detached = true
\* whatever the caller's options say; on Windows it is the jobber binary
\* with the resolved command and arguments as its arguments, and jobber is
\* set; elsewhere it is the resolved command itself, the caller's jobber
\* option is kept as it is, and no teardown opens the jobber channel unless
\* the caller set jobber.
C26_Detached ==
  \A p \in Pids :
    detachedCall # {} =>
      LET call == CHOOSE d \in detachedCall : TRUE
      IN /\ procs[p].spawnOpts.detached = TRUE
         /\ isWindows =>
              /\ procs[p].cmd \in {PackageJobber, CwdJobber, ParentJobber}
              /\ procs[p].args = <<DetachedResolved.cmd>> \o DetachedResolved.args
              /\ opts.jobber
         /\ ~isWindows =>
              /\ procs[p].cmd = DetachedResolved.cmd
              /\ procs[p].args = DetachedResolved.args
              /\ opts.jobber = call.opts.jobber
              /\ ~call.opts.jobber => procs[p].connects = 0

\* on Windows a caller passes detached: false and no jobber flag; the
\* process is the jobber binary found in the working directory, launched
\* detached, and its teardown went through the jobber channel
C26_Witness ==
  \E p \in Pids, call \in detachedCall :
    /\ isWindows
    /\ "detached" \in DOMAIN call.opts /\ ~call.opts.detached /\ ~call.opts.jobber
    /\ procs[p].cmd = CwdJobber
    /\ procs[p].args = <<DetachedResolved.cmd>> \o call.params
    /\ procs[p].spawnOpts.detached
    /\ procs[p].connects = 1

\* ---- two activations running side by side, with a timeout ----

InitIndependent ==
  /\ InitWith({1, 2}, {o \in OptionSpace :
                         /\ o.retries = 0 /\ o.timeout = 50 /\ ~o.stdin /\ ~o.jobber
                         /\ o.stdio.stdout = "pipe" /\ o.stdio.stderr = "ignore"})
  /\ FixedWorld

NextIndependent ==
  \/ \E c \in Consumers : Subscribe(c)
  \/ \E c \in Consumers : Unsubscribe(c)
  \/ \E p \in Pids, s \in Sources, b \in Chunks : Data(p, s, b)
  \/ \E p \in Pids, s \in Sources : PipeClose(p, s)
  \/ \E p \in Pids, code \in ExitCodes : ProcClose(p, code)
  \/ \E p \in Pids : ProcError(p)
  \/ \E p \in Pids : TimeoutFire(p)

SpecIndependent == InitIndependent /\ [][NextIndependent]_vars

\* every attached consumer has a process record of its own
C27_Own ==
  \A c \in Attached :
    /\ Cur(c).owner = c
    /\ \A d \in Attached : d # c => innerSub[d] # innerSub[c]

\* a step belongs to one activation: the records of the processes of the
\* other consumers (handle, close flag, timer, termination requests) and
\* what those consumers have received stay as they are
C27_Step ==
  \E c \in Consumers :
    /\ \A p \in Pids : procs[p].owner # c => procs'[p] = procs[p]
    /\ \A d \in Consumers \ {c} :
         /\ events'[d] = events[d]
         /\ outcome'[d] = outcome[d]
         /\ sub'[d] = sub[d]
         /\ innerSub'[d] = innerSub[d]

\* C27: activations of one stream do not interfere: each has its own
\* process handle, close flag and timer, and a detachment, timeout or
\* failure of one never sends a termination request to, cancels the timer
\* of, or changes the events or outcome of another.
C27_Independent == []C27_Own /\ [][C27_Step]_vars

\* two activations were running side by side; the first timed out and got
\* its termination request, the second still runs with its timer armed and
\* no termination request
C27_Witness ==
  /\ Attached = {1, 2}
  /\ outcome[1] = Failed(TimeoutError) /\ Cur(1).kills >= 1
  /\ sub[2] = "active" /\ outcome[2] = NoOutcome
  /\ Cur(2).timeoutHandle = "armed" /\ Cur(2).kills = 0 /\ ~Cur(2).stopped

\* C28: the events a consumer receives are the non-empty chunks its process
\* delivered, one event per chunk, tagged with the chunk's source, in the
\* order of arrival within each source and across the two; no event has an
\* empty text; the merged aggregation has the texts in that same order.
C28_Events ==
  \A c \in Attached :
    /\ events[c] = Cur(c).arrived
    /\ \A i \in 1..Len(events[c]) :
         events[c][i].text # "" /\ events[c][i].source \in Sources
    /\ \A s \in Sources :
         TextsOf(events[c], {s}) = TextsOf(Cur(c).arrived, {s})
    /\ MergedBuffer(<<>>, events[c]) =
         [i \in 1..Len(Cur(c).arrived) |-> Cur(c).arrived[i].text]

\* b arrived on stderr, then a on stdout: two events in that order
C28_Witness ==
  \E c \in Attached :
    /\ Cur(c).arrived = <<[source |-> "stderr", text |-> "b"],
                          [source |-> "stdout", text |-> "a"]>>
    /\ events[c] = Cur(c).arrived
    /\ MergedBuffer(<<>>, events[c]) = <<"b", "a">>

\* the process of pr has closed and none of its piped streams is open
Done(pr) ==
  /\ pr.closed
  /\ \A s \in Sources : opts.stdio[s] = "pipe" => pr[s] # "open"

\* no event comes from a source that is not piped, and an activation whose
\* process has closed and whose piped streams have closed has ended
C29_State ==
  /\ \A c \in Consumers : \A i \in 1..Len(events[c]) :
       opts.stdio[events[c][i].source] = "pipe"
  /\ \A p \in Pids :
       /\ \A s \in Sources : opts.stdio[s] # "pipe" => procs[p][s] = "none"
       /\ Done(procs[p]) => procs[p].stopped

\* the step that brings the close of the process or of the last piped
\* stream to a running activation ends it with the notification of the
\* exit code
C29_Step ==
  \A p \in Pids :
    (~procs[p].stopped /\ Done(procs'[p])) =>
      /\ procs'[p].stopped
      /\ procs'[p].term = CloseNotification(procs'[p].code)

\* C29: a stdout or stderr that is not piped counts as closed from the
\* start: no event has that source, and the stream still ends, with the
\* notification of the exit code, once the close of the process and the
\* closes of the remaining piped streams have been observed.
C29_Unpiped == []C29_State /\ [][C29_Step]_vars

\* stderr is ignored and stdout piped: the consumer got an event from
\* stdout and the completion after stdout and the process closed
C29_Witness ==
  \E c \in Attached :
    /\ opts.stdio.stderr = "ignore" /\ opts.stdio.stdout = "pipe"
    /\ Cur(c).stderr = "none" /\ Cur(c).stdout = "closed" /\ Cur(c).closed
    /\ Len(events[c]) = 1 /\ events[c][1].source = "stdout"
    /\ outcome[c] = Completed

\* C30 as stated: when a consumer's stream completed after a retry, the
\* merged form resolves with the texts the final attempt delivered and the
\* split form with the stdout texts and the stderr texts of the final
\* attempt, nothing of the failed attempts being in them.
C30_FinalAttemptOnly ==
  \A c \in Attached :
    (outcome[c] = Completed /\ Cur(c).attempt > 1) =>
      /\ MergedPromise(c) =
           [state |-> "resolved",
            value |-> [i \in 1..Len(Cur(c).arrived) |-> Cur(c).arrived[i].text]]
      /\ SplitPromise(c) =
           [state |-> "resolved",
            value |-> <<TextsOf(Cur(c).arrived, {"stdout"}), TextsOf(Cur(c).arrived, {"stderr"})>>]

\* ---- the depth of the recursion of findActualExecutable ----

NestedNames ==
  {<<"a">>, <<"a", ".exe">>, <<"a", ".bat">>, <<"a", ".exe", ".exe">>,
   <<"a", ".exe", ".bat">>, <<"a", ".bat", ".exe">>, <<"a", ".bat", ".ps1">>}
NestedFiles == {PathJoin(d, n) : d \in {<<".">>, <<"q">>}, n \in NestedNames}

InitNested ==
  /\ InitWith({1}, {o \in OptionSpace :
                      /\ o.retries = 0 /\ o.timeout = 0 /\ ~o.stdin /\ ~o.jobber
                      /\ o.stdio.stdout = "pipe" /\ o.stdio.stderr = "pipe"})
  /\ platform \in Platforms
  /\ exe \in {<<"a">>, <<"a", ".exe">>, <<"a", ".bat">>}
  /\ envPath \in {{}, {<<"q">>}}
  /\ fs \in {[f \in T |-> "found"] : T \in SubsetsUpTo(NestedFiles, MaxFiles)}
  /\ resolved = {}
  /\ PlainCall

SpecNested == InitNested /\ [][NextResolver]_vars

\* C31: one call of findActualExecutable from outside makes at most one
\* recursive call, and the exe of that call exists, so that the call makes
\* no extension search and no further call, whatever exe and the file
\* system are.
C31_DepthOne ==
  \A r \in resolved :
    r.fn = "findActualExecutable" =>
      /\ Len(r.calls) <= 2
      /\ Len(r.calls) = 2 =>
           /\ StatSync(r.calls[2]) = "found"
           /\ StatSync(r.calls[1]) # "found"

\* a does not exist, a.exe and a.exe.exe do: the recursive call is made
\* with a.exe and is the last one
C31_Witness ==
  /\ platform = "win32" /\ exe = <<"a">>
  /\ DOMAIN fs = {<<"a", ".exe">>, <<"a", ".exe", ".exe">>}
  /\ \E r \in resolved :
       /\ r.fn = "findActualExecutable"
       /\ r.calls = << <<"a">>, <<"a", ".exe">> >>
       /\ r.cmd = <<"a", ".exe">>

\* ---- the echo of the output ----

InitEcho ==
  /\ \E o \in OptionSpace, x \in {[echoOutput |-> TRUE], [echoOutput |-> FALSE], [cwd |-> "w"]} :
       /\ o.retries = 0 /\ o.timeout = 0 /\ ~o.stdin /\ ~o.jobber
       /\ o.stdio.stdout = "pipe" /\ o.stdio.stderr = "pipe"
       /\ InitWith({1}, {o @@ x})
  /\ FixedWorld

NextEcho ==
  \/ \E c \in Consumers : Subscribe(c)
  \/ \E c \in Consumers : Unsubscribe(c)
  \/ \E p \in Pids, s \in Sources, b \in OutputChunks : DataUpTo(p, s, b, MaxEvents + 1)
  \/ \E p \in Pids, s \in Sources : PipeClose(p, s)
  \/ \E p \in Pids, code \in ExitCodes : ProcClose(p, code)

SpecEcho == InitEcho /\ [][NextEcho]_vars

\* C32: with echoOutput set, every event was preceded by the write of its
\* chunk to the standard stream of the current process that has the name of
\* its source: the i-th event of an activation has a write of the same
\* source and text that was made when i - 1 events had been emitted, and
\* the writes are in the order of the events; without echoOutput nothing is
\* written.
C32_Echo ==
  \A p \in Pids :
    LET pr == procs[p] IN
    /\ ~EchoOutput => pr.echoed = <<>>
    /\ EchoOutput =>
         /\ Len(pr.echoed) >= Len(pr.arrived)
         /\ \A i \in 1..Len(pr.arrived) :
              /\ pr.echoed[i].source = pr.arrived[i].source
              /\ pr.echoed[i].text = pr.arrived[i].text
              /\ pr.echoed[i].emitted = i - 1
              /\ events[pr.owner][i] = pr.arrived[i]

\* b from stderr and then a from stdout were echoed and emitted
C32_Witness ==
  \E c \in Attached :
    /\ EchoOutput
    /\ events[c] = <<[source |-> "stderr", text |-> "b"], [source |-> "stdout", text |-> "a"]>>
    /\ Cur(c).echoed = <<[source |-> "stderr", text |-> "b", emitted |-> 0],
                         [source |-> "stdout", text |-> "a", emitted |-> 1]>>

\* ---- the natural end: the consumer stays, no timer fires ----

InitNatural ==
  /\ InitWith({1}, {o \in OptionSpace : o.retries = 0 /\ ~o.stdin})
  /\ FixedWorld

NextNatural ==
  \/ \E c \in Consumers : Subscribe(c)
  \/ \E p \in Pids, s \in Sources, b \in OutputChunks : DataUpTo(p, s, b, MaxEvents + 1)
  \/ \E p \in Pids, s \in Sources : PipeClose(p, s)
  \/ \E p \in Pids, code \in ExitCodes : ProcClose(p, code)

\* the close of the process and the close of each piped stream do come
FairNatural ==
  /\ WF_vars(\E p \in Pids, code \in ExitCodes : ProcClose(p, code))
  /\ \A s \in Sources : WF_vars(\E p \in Pids : PipeClose(p, s))

SpecNatural == InitNatural /\ [][NextNatural]_vars /\ FairNatural

\* C33: a consumer that stays attached to a stream whose timer does not
\* fire gets the terminal notification once the close of the process and
\* the close of every piped stream have come, in whatever order they come.
C33_NaturalEnd ==
  \A c \in Consumers : (sub[c] = "active") ~> (sub[c] = "terminated" /\ outcome[c] # NoOutcome)

\* both streams were piped and have closed, the process has closed with a
\* nonzero code, and the consumer has the exit failure
C33_Witness ==
  \E c \in Attached :
    /\ opts.stdio.stdout = "pipe" /\ opts.stdio.stderr = "pipe"
    /\ Cur(c).stdout = "closed" /\ Cur(c).stderr = "closed" /\ Cur(c).closed
    /\ sub[c] = "terminated" /\ IsExitFailure(outcome[c])

\* a consumer that has its terminal notification or has detached keeps its
\* events, its outcome and its state in every step
C34_Step ==
  \A c \in Consumers :
    /\ sub[c] \in {"terminated", "detached"} =>
         /\ events'[c] = events[c]
         /\ outcome'[c] = outcome[c]
         /\ sub'[c] = sub[c]
    /\ outcome[c] # NoOutcome => outcome'[c] = outcome[c]

\* a terminal notification is held by terminated consumers only
C34_State ==
  \A c \in Consumers :
    /\ outcome[c] # NoOutcome => sub[c] = "terminated"
    /\ sub[c] = "detached" => outcome[c] = NoOutcome

\* C34: a consumer that has received the terminal notification, whatever
\* its kind, or has detached receives nothing more: no event for a chunk
\* that comes later and no second terminal notification.
C34_NothingAfterEnd == []C34_State /\ [][C34_Step]_vars

\* the consumer has the timeout failure, and the process has closed and its
\* pipes have closed after that
C34_Witness ==
  \E c \in Attached :
    /\ outcome[c] = Failed(TimeoutError)
    /\ opts.stdio.stdout = "pipe"
    /\ Cur(c).closed /\ Cur(c).stopped
    /\ Cur(c).timeoutHandle = "fired"

\* a detached consumer has no retry delay timer
C35_State ==
  \A c \in Consumers : sub[c] = "detached" => retryTimer[c] = {}

\* the detachment of a consumer that waits for a retry cancels the timer,
\* and no process is launched for a detached consumer
C35_Step ==
  \A c \in Consumers :
    /\ (sub[c] = "retryWait" /\ sub'[c] = "detached") => retryTimer'[c] = {}
    /\ sub[c] = "detached" =>
         /\ sub'[c] = "detached"
         /\ {p \in 1..Len(procs') : procs'[p].owner = c} = AttemptsOf(c)

\* C35: when the consumer detaches while a retry delay is pending, the
\* delay timer is cancelled and no further process is launched for it.
C35_DetachInDelay == []C35_State /\ [][C35_Step]_vars

\* the first attempt failed with an exit code, the consumer detached during
\* the delay: one process, no timer
C35_Witness ==
  \E c \in Attached :
    /\ sub[c] = "detached" /\ soFar[c] = 1 /\ opts.retries = 1
    /\ IsExitFailure(Cur(c).term)
    /\ Cardinality(AttemptsOf(c)) = 1
    /\ retryTimer[c] = {}

\* C36 as stated: a process gets at most one kill, the kill of the timeout
\* timer, the kill of the teardown and the kill of the jobber escalation
\* counted together.
C36_OneRequest ==
  \A p \in Pids : procs[p].kills <= 1

\* C37 as stated: of the processes launched for one consumer of a retried
\* stream at most one has not closed.
C37_OneAlive ==
  \A c \in Consumers : \A p, q \in AttemptsOf(c) :
    p # q => (procs[p].closed \/ procs[q].closed)

\* ---- a timeout is configured and the consumer stays ----

InitTimeout ==
  /\ InitWith({1}, {o \in OptionSpace :
                      /\ o.timeout > 0 /\ ~o.stdin
                      /\ o.stdio.stdout = "pipe" /\ o.stdio.stderr = "ignore"})
  /\ FixedWorld

NextTimeout ==
  \/ \E c \in Consumers : Subscribe(c)
  \/ \E c \in Consumers : RetryTimerFire(c)
  \/ \E p \in Pids, s \in Sources, b \in Chunks : Data(p, s, b)
  \/ \E p \in Pids, s \in Sources : PipeClose(p, s)
  \/ \E p \in Pids, code \in ExitCodes : ProcClose(p, code)
  \/ \E p \in Pids : ProcError(p)
  \/ \E p \in Pids : TimeoutFire(p)
  \/ \E p \in Pids : JobberKill(p)

\* timers that are armed fire, and the pipes of a process that has closed
\* close; the process itself need not ever close
FairTimeout ==
  /\ WF_vars(\E p \in Pids : TimeoutFire(p))
  /\ WF_vars(\E c \in Consumers : RetryTimerFire(c))
  /\ WF_vars(\E p \in Pids, s \in Sources : procs[p].closed /\ PipeClose(p, s))

SpecTimeout == InitTimeout /\ [][NextTimeout]_vars /\ FairTimeout

\* C38: with a timeout configured, a consumer that stays attached gets a
\* terminal notification whether or not a process ever closes; with retries
\* = R this happens with at most R + 1 processes launched.
C38_Terminates ==
  /\ \A c \in Consumers : (sub[c] \in {"active", "retryWait"}) ~> (sub[c] = "terminated")
  /\ [](\A c \in Consumers : Cardinality(AttemptsOf(c)) <= opts.retries + 1)

\* with retries = 1 two processes were launched, neither has closed, and
\* the consumer has the timeout failure
C38_Witness ==
  \E c \in Attached :
    /\ opts.retries = 1 /\ opts.timeout > 0
    /\ sub[c] = "terminated" /\ outcome[c] = Failed(TimeoutError)
    /\ Cardinality(AttemptsOf(c)) = 2
    /\ \A p \in AttemptsOf(c) : ~procs[p].closed

\* C21 as stated: on every platform, for an exe without separator whose
\* current-directory candidate does not exist and whose name exists in some
\* PATH entry, findActualExecutable yields the candidate of the first such
\* entry.
C21_UniformPathSearch ==
  \A r \in resolved :
    r.fn = "findActualExecutable" =>
      LET inPath == {i \in 2..Len(Candidates) : StatSync(Candidates[i]) = "found"}
      IN (~HasSeparator(exe) /\ StatSync(Candidates[1]) # "found" /\ inPath # {})
           => r.cmd = Candidates[Min(inPath)]

====
